---------------------------- MODULE Spec2Model ----------------------------
(***************************************************************************)
(* Version matrix of is3-devportal: the React component VersionMatrix in   *)
(* its variants.                                                           *)
(*                                                                         *)
(*   "cached"    src/unnamed/part_001 lines 1-594: the rows are published  *)
(*               from the localStorage cache, the user checks rows and     *)
(*               presses "Refrescar", every fetch completion updates one   *)
(*               cell, flags it and saves the cache.                       *)
(*   "fetching"  src/unnamed/part_001 lines 596-1084: load awaits the      *)
(*               fetches of every row (fetchRowVersions) and publishes     *)
(*               the rows afterwards.                                      *)
(*                                                                         *)
(* One step of the model is one run-to-completion task of the JavaScript   *)
(* event loop: a promise continuation with the state updates it queues, a  *)
(* timer callback, or a user event handler.                                *)
(***************************************************************************)
EXTENDS Integers, Sequences, FiniteSets, TLC

\* Most handleRefresh calls started in one behaviour.
MaxCalls == 2

\* Most handleRefresh calls started in one behaviour with fair scheduling.
MaxFairCalls == 1

Variants == {"cached", "fetching"}

Null == "<null>"

--------------------------------------------------------------------------
(* Small helpers on maps (JavaScript objects with string keys).            *)

EmptyMap == << >>

\* { ...m, [k]: v }
Put(m, k, v) == [x \in (DOMAIN m) \cup {k} |-> IF x = k THEN v ELSE m[x]]

\* m[k] || {} with a map that has forgotten everything
GetOrEmptyForgetful(m, k) == EmptyMap

\* m[k] || {}
GetOrEmpty(m, k) == IF k \in DOMAIN m THEN m[k] ELSE EmptyMap

Range(s) == {s[i] : i \in DOMAIN s}

--------------------------------------------------------------------------
(* Strings.  TLA+ strings are atoms, so the string functions of the code   *)
(* are tables over the strings of the model.                               *)

\* String.prototype.trim
Trim(s) ==
  CASE s = " 2.3.1\n" -> "2.3.1"
    [] s = " http://b/pro " -> "http://b/pro"
    [] OTHER -> s

\* String.prototype.toUpperCase
ToUpperCase(s) ==
  CASE s = "int" -> "INT"
    [] s = "pro" -> "PRO"
    [] s = "dev" -> "DEV"
    [] OTHER -> s

\* `HTTP ${res.status}`
HttpMessage(status) ==
  CASE status = 500 -> "HTTP 500"
    [] status = 404 -> "HTTP 404"
    [] OTHER -> "HTTP ???"

\* err.message.startsWith('HTTP ')
StartsWithHTTP(message) == message \in {"HTTP 500", "HTTP 404", "HTTP ???"}

\* a.name.localeCompare(b.name) <= 0, through the rank of the names in use
NameRank(name) ==
  CASE name = "lib" -> 1
    [] name = "svc-a" -> 2
    [] name = "svc-b" -> 3
    [] name = "svc-c" -> 4
    [] name = "svc-d" -> 5
    [] OTHER -> 6

\* `${rowName}-${env}`
CellKey(rowName, env) ==
  CASE rowName = "svc-a" /\ env = "INT" -> "svc-a-INT"
    [] rowName = "svc-a" /\ env = "PRO" -> "svc-a-PRO"
    [] rowName = "svc-b" /\ env = "INT" -> "svc-b-INT"
    [] rowName = "svc-b" /\ env = "PRO" -> "svc-b-PRO"
    [] rowName = "svc-c" /\ env = "INT" -> "svc-c-INT"
    [] rowName = "svc-c" /\ env = "PRO" -> "svc-c-PRO"
    [] rowName = "svc-d" /\ env = "DEV" -> "svc-d-DEV"
    [] OTHER -> "?"

CellKeys ==
  {"svc-a-INT", "svc-a-PRO", "svc-b-INT", "svc-b-PRO", "svc-c-INT", "svc-c-PRO",
   "svc-d-DEV"}

--------------------------------------------------------------------------
(* The catalog collaborator: what catalogApi.getEntities can answer.       *)
(* annotations maps the part of an "is3-devportal/version-<env>" key after *)
(* the prefix to the annotation's value.                                   *)

EntityA == [name |-> "svc-a", namespace |-> "default",
            annotations |-> [int |-> "http://a/int"]]
EntityA2 == [name |-> "svc-a", namespace |-> "team",
             annotations |-> [int |-> "http://a2/int"]]
EntityB == [name |-> "svc-b", namespace |-> "default",
            annotations |-> [int |-> "http://b/int", pro |-> " http://b/pro "]]
EntityC == [name |-> "svc-c", namespace |-> "default",
            annotations |-> [int |-> "http://c/int"]]
EntityD == [name |-> "svc-d", namespace |-> "default",
            annotations |-> [dev |-> "http://d/dev"]]
EntityLib == [name |-> "lib", namespace |-> "default", annotations |-> EmptyMap]

\* One component with two environments; two components of different names
\* (listed out of order); two components of one name in two namespaces; one
\* component with an environment that is no default environment.
Catalogs ==
  { <<EntityLib, EntityB>>, <<EntityC, EntityA>>, <<EntityA, EntityA2>>,
    <<EntityD>> }

\* What getEntities can reject with: an Error (its message), or something
\* that is no Error.
Rejections ==
  { [isError |-> TRUE, message |-> "Request failed with 500"],
    [isError |-> FALSE, message |-> ""] }

\* What a version endpoint can answer to one GET.  kind "ok": a response
\* arrived (any status); "abort": the request was aborted (AbortError);
\* "neterr": any other transport failure (TypeError).
Responses ==
  { [kind |-> "ok", status |-> 200, body |-> " 2.3.1\n"],
    [kind |-> "ok", status |-> 500, body |-> "oops"],
    [kind |-> "abort", status |-> 0, body |-> ""] }

DEFAULT_ENVIRONMENTS == <<"CONSO", "INT", "PRE", "PRO">>

\* The environments the entities of the model have endpoints for.
Envs == {"INT", "PRO", "DEV"}

\* The names of the entities of the model.
Names == {"lib", "svc-a", "svc-b", "svc-c", "svc-d"}

--------------------------------------------------------------------------
VARIABLES
  variant,        \* which VersionMatrix this is
  storage,        \* localStorage['version-matrix-cache']
  writable,       \* whether localStorage.setItem succeeds (it throws when
                  \* localStorage is not available)
  cachedVersions, \* load's local: what loadCachedVersions returned
  loadPc,         \* where load is: "listing", "fetching", "done", "failed"
  loadRows,       \* load's local preparedRows while its fetches run
  loadPending,    \* fetches of load not settled yet: <<row index, env>>
  allRows, environments, loading, error,  \* React state
  refreshing, checkedRows, changedCells,  \* React state
  flagTimers,     \* armed 1000 ms timers of markCellAsChanged, per cell key
  calls,          \* the handleRefresh calls, in the order they started
  written,        \* history: per cell, the call and the result of the last
                  \* completion of a fetch of that very row and environment
  mounted,        \* the component is mounted (the effect's cleanup has not run)
  lateSets,       \* history: the state setters load called after teardown
  pe,             \* one call of parseEndpoints on its own: input and result
  fv              \* one call of fetchVersion on its own: its locals and result

vars == <<variant, storage, writable, cachedVersions, loadPc, loadRows, loadPending,
          allRows, environments, loading, error, refreshing, checkedRows,
          changedCells, flagTimers, calls, written, mounted, lateSets, pe, fv>>

--------------------------------------------------------------------------
(* parseEndpoints, the per-environment keys.                               *)

parseEndpoints(entity) ==
  LET ann == entity.annotations
      envs == {ToUpperCase(k) : k \in DOMAIN ann}
  IN [env \in envs |-> Trim(ann[CHOOSE k \in DOMAIN ann : ToUpperCase(k) = env])]

(* fetchVersion: what the call ends in for one answer of the endpoint.     *)
fetchVersion(resp) ==
  IF resp.kind = "abort" THEN [threw |-> TRUE, value |-> "TIMEOUT"]
  ELSE IF resp.kind = "neterr" THEN [threw |-> TRUE, value |-> "Failed to fetch"]
  ELSE IF ~(resp.status >= 200 /\ resp.status <= 299)
       THEN [threw |-> TRUE, value |-> HttpMessage(resp.status)]
  ELSE [threw |-> FALSE, value |-> Trim(resp.body)]

\* ErrorValue without the two tests on err.message.
ErrorValueUnclassified(message) == "N/C"

\* The catch block's errorValue.
ErrorValue(message) ==
  IF message = "TIMEOUT" THEN "TIMEOUT"
  ELSE IF StartsWithHTTP(message) THEN message
  ELSE "N/C"

\* The string a completion writes into the cell.
CellValue(outcome) ==
  IF outcome.threw THEN ErrorValue(outcome.value) ELSE outcome.value

(* loadCachedVersions / saveCachedVersions.                                *)
\* What loadCachedVersions returns is a JavaScript value: t is what it is
\* (an "object", "null", a "number", a "string"), v its entries by name.
NoCache == [t |-> "object", v |-> EmptyMap]

\* getItem throws, or JSON.parse throws: {} from the catch block; nothing
\* stored (null or ''): {}; else whatever JSON.parse returns.
loadCachedVersions(store) ==
  CASE store.kind \in {"missing", "unreadable", "unparseable"} -> NoCache
    [] store.kind = "object" -> [t |-> "object", v |-> store.value]
    [] OTHER -> [t |-> store.kind, v |-> EmptyMap]

\* cachedVersions[entity.metadata.name] throws a TypeError: null has no
\* properties (a number or a string has, and yields undefined).
IndexThrows(cache) == cache.t = "null"

\* the TypeError's message
NullIndexMessage == "Cannot read properties of null"

\* cache[row.name] = row.versions for every row with a version, in order
SnapshotOf(rows) ==
  LET names == {rows[i].name : i \in {j \in DOMAIN rows : DOMAIN rows[j].versions # {}}}
      Last(n) == CHOOSE i \in DOMAIN rows :
                   /\ rows[i].name = n /\ DOMAIN rows[i].versions # {}
                   /\ \A j \in DOMAIN rows :
                        (rows[j].name = n /\ DOMAIN rows[j].versions # {}) => j <= i
  IN [n \in names |-> rows[Last(n)].versions]

\* saveCachedVersions without its try/catch: a failing setItem leaves the
\* function as an exception.
SaveThrowsUncaught(writeOk) == ~writeOk

\* try { ... localStorage.setItem(...) } catch { }: nothing leaves
\* saveCachedVersions as an exception.
SaveThrows(writeOk) == FALSE

\* saveCachedVersions that writes only while nothing is stored yet.
saveCachedVersionsOnce(store, rows, writeOk) ==
  IF writeOk /\ store.kind # "object"
  THEN [kind |-> "object", value |-> SnapshotOf(rows)] ELSE store

saveCachedVersions(store, rows, writeOk) ==
  IF writeOk THEN [kind |-> "object", value |-> SnapshotOf(rows)] ELSE store

\* The rows of an earlier session when it last saved: svc-a with the
\* versions its refresh resolved to, svc-b never refreshed.
EarlierRows ==
  << [name |-> "svc-a", namespace |-> "default",
      endpoints |-> [y \in {"INT", "PRO"} |->
                       IF y = "INT" THEN "http://a/int" ELSE "http://a/pro"],
      versions |-> [y \in {"INT", "PRO"} |->
                      IF y = "INT" THEN "1.0.0" ELSE "0.9.0"]],
     [name |-> "svc-b", namespace |-> "default",
      endpoints |-> [y \in {"INT"} |-> "http://b/int"],
      versions |-> EmptyMap] >>

NoStorage == [content |-> [kind |-> "missing", value |-> EmptyMap], writable |-> TRUE]

\* What localStorage holds under 'version-matrix-cache' at start, and
\* whether it can be written: nothing stored yet, the snapshot the earlier
\* session saved, and that snapshot in a store that takes no more writes.
StoredSnapshot == saveCachedVersions(NoStorage.content, EarlierRows, TRUE)

InitialStorages ==
  { NoStorage,
    [content |-> StoredSnapshot, writable |-> TRUE],
    [content |-> StoredSnapshot, writable |-> FALSE] }

\* A store that is no snapshot: localStorage throws on every access; the
\* text is no JSON ('{oops'); the text is JSON for null, for a number (5),
\* for a string ('"x"').
CorruptStorages ==
  { [content |-> [kind |-> "unreadable", value |-> EmptyMap], writable |-> FALSE],
    [content |-> [kind |-> "unparseable", value |-> EmptyMap], writable |-> TRUE],
    [content |-> [kind |-> "null", value |-> EmptyMap], writable |-> TRUE],
    [content |-> [kind |-> "number", value |-> EmptyMap], writable |-> TRUE],
    [content |-> [kind |-> "string", value |-> EmptyMap], writable |-> TRUE] }

(* preparedRows.sort((a, b) => a.name.localeCompare(b.name)): stable.      *)
RECURSIVE InsertByName(_, _)
InsertByName(sorted, row) ==
  IF sorted = << >> THEN <<row>>
  ELSE IF NameRank(Head(sorted).name) <= NameRank(row.name)
       THEN <<Head(sorted)>> \o InsertByName(Tail(sorted), row)
       ELSE <<row>> \o sorted

RECURSIVE SortByName(_)
SortByName(rows) ==
  IF rows = << >> THEN << >>
  ELSE InsertByName(SortByName(SubSeq(rows, 1, Len(rows) - 1)), rows[Len(rows)])

\* The loop without its test of Object.keys(endpoints).length: every
\* entity becomes a row.
RECURSIVE PrepareRowsKeepAll(_, _)
PrepareRowsKeepAll(entities, cache) ==
  IF entities = << >> THEN << >>
  ELSE <<[name |-> Head(entities).name, namespace |-> Head(entities).namespace,
          endpoints |-> parseEndpoints(Head(entities)),
          versions |-> GetOrEmpty(cache, Head(entities).name)]>>
         \o PrepareRowsKeepAll(Tail(entities), cache)

(* The loop of load over entities.items.                                   *)
RECURSIVE PrepareRows(_, _)
PrepareRows(entities, cache) ==
  IF entities = << >> THEN << >>
  ELSE LET entity == Head(entities)
           endpoints == parseEndpoints(entity)
           rest == PrepareRows(Tail(entities), cache)
       IN IF DOMAIN endpoints = {} THEN rest
          ELSE <<[name |-> entity.name, namespace |-> entity.namespace,
                  endpoints |-> endpoints,
                  versions |-> GetOrEmpty(cache, entity.name)]>> \o rest

\* Array.from(collectedEnvs): the defaults, then what the rows add, in order
RECURSIVE AppendNew(_, _)
AppendNew(seq, items) ==
  IF items = {} THEN seq
  ELSE LET x == CHOOSE y \in items : TRUE
       IN AppendNew(IF x \in Range(seq) THEN seq ELSE Append(seq, x), items \ {x})

\* collectedEnvs without the add of the loop: the defaults alone.
CollectEnvsDefaultsOnly(rows) == DEFAULT_ENVIRONMENTS

CollectEnvs(rows) ==
  AppendNew(DEFAULT_ENVIRONMENTS,
            UNION {DOMAIN rows[i].endpoints : i \in DOMAIN rows})

\* What the component renders.
View ==
  IF ~mounted THEN "none"
  ELSE IF loading THEN "spinner"
  ELSE IF error # Null THEN "error"
  ELSE IF Len(allRows) = 0 THEN "info"
  ELSE "table"

\* No call of parseEndpoints or fetchVersion is looked at on its own.
PeIdle == [pc |-> "idle"]
FvIdle == [pc |-> "idle"]

--------------------------------------------------------------------------
InitWith(variants, storages) ==
  /\ variant \in variants
  /\ \E s \in storages :
       /\ storage = s.content /\ writable = s.writable
       \* the fetching variant never touches localStorage
       /\ variant = "fetching" => s = NoStorage
  /\ cachedVersions = IF variant = "cached" THEN loadCachedVersions(storage)
                      ELSE NoCache
  /\ loadPc = "listing"
  /\ loadRows = << >>
  /\ loadPending = {}
  /\ allRows = << >>
  /\ environments = DEFAULT_ENVIRONMENTS
  /\ loading = TRUE
  /\ error = Null
  /\ refreshing = {}
  /\ checkedRows = {}
  /\ changedCells = {}
  /\ flagTimers = [k \in CellKeys |-> 0]
  /\ calls = << >>
  /\ written = << >>
  /\ mounted = TRUE
  /\ lateSets = {}
  /\ pe = PeIdle
  /\ fv = FvIdle

Init == InitWith(Variants, InitialStorages)

--------------------------------------------------------------------------
(* load.                                                                   *)

\* ErrorMessage as a slip would have it: setError(err.message), whatever
\* was thrown, so that something that is no Error sets no error.
ErrorMessageNoFallback(rejection, fallback) ==
  IF rejection.isError THEN rejection.message ELSE Null

\* What setError gets in the catch block.
ErrorMessage(rejection, fallback) ==
  IF rejection.isError THEN rejection.message ELSE fallback

\* The cells of a row set: <<row index, env>> for every endpoint.
CellsOf(rows) ==
  UNION {{<<i, env>> : env \in DOMAIN rows[i].endpoints} : i \in DOMAIN rows}

NeverWritten(rows) == [cell \in CellsOf(rows) |-> [call |-> 0, value |-> Null]]

\* cached variant: getEntities resolved; the rest of load's try block.
LoadListed(catalog) ==
  /\ variant = "cached"
  /\ loadPc = "listing"
  /\ IF IndexThrows(cachedVersions) /\ PrepareRows(catalog, EmptyMap) # << >>
     \* the first row's cachedVersions[name] throws: the catch block
     THEN /\ error' = NullIndexMessage
          /\ loadPc' = "failed"
          /\ lateSets' = IF mounted THEN lateSets
                         ELSE lateSets \cup {"setError", "setLoading"}
          /\ UNCHANGED <<environments, allRows, written>>
     ELSE /\ LET preparedRows == SortByName(PrepareRows(catalog, cachedVersions.v))
             IN /\ environments' = CollectEnvs(preparedRows)
                /\ allRows' = preparedRows
                /\ written' = NeverWritten(preparedRows)
          /\ loadPc' = "done"
          /\ lateSets' = IF mounted THEN lateSets
                         ELSE lateSets \cup {"setEnvironments", "setAllRows", "setLoading"}
          /\ error' = error
  /\ loading' = FALSE
  /\ cachedVersions' = NoCache
  /\ UNCHANGED <<pe, fv, mounted, variant, storage, writable, loadRows, loadPending, refreshing,
                 checkedRows, changedCells, flagTimers, calls>>

\* controller.signal.aborted: the cleanup of the effect has run (the cached
\* variant has no controller).
Aborted == variant # "cached" /\ ~mounted

\* getEntities rejected: the catch block (either variant), and the
\* fetching variant's finally block.
LoadFailed(rejection) ==
  /\ loadPc = "listing"
  /\ IF Aborted
     THEN UNCHANGED <<error, loading, lateSets>>
     ELSE /\ error' = ErrorMessage(rejection,
                        IF variant = "cached" THEN "Failed to load entities"
                        ELSE "Failed to load versions")
          /\ loading' = FALSE
          /\ lateSets' = IF mounted THEN lateSets
                         ELSE lateSets \cup {"setError", "setLoading"}
  /\ loadPc' = "failed"
  /\ cachedVersions' = NoCache
  /\ UNCHANGED <<pe, fv, mounted, variant, storage, writable, loadRows, loadPending, allRows, environments,
                 refreshing, checkedRows, changedCells, flagTimers, calls, written>>

\* fetchRowVersions of every row when every fetchVersion throws TIMEOUT.
AllTimedOut(rows) ==
  [i \in DOMAIN rows |->
     [rows[i] EXCEPT !.versions = [env \in DOMAIN rows[i].endpoints |-> "TIMEOUT"]]]

\* fetching variant: getEntities resolved; every row's fetchRowVersions
\* starts one fetchVersion per environment, and load awaits them all.
LoadListedFetching(catalog) ==
  /\ variant = "fetching"
  /\ loadPc = "listing"
  /\ LET preparedRows == PrepareRows(catalog, EmptyMap)
     IN /\ environments' = CollectEnvs(preparedRows)
        /\ IF preparedRows = << >>
           THEN /\ allRows' = << >>
                /\ loading' = IF Aborted THEN loading ELSE FALSE
                /\ loadPc' = "done"
                /\ UNCHANGED <<loadRows, loadPending, written>>
           ELSE IF Aborted
           \* every fetchVersion finds signal.aborted and throws TIMEOUT
           \* at once: the rows are published in this very turn
           THEN /\ allRows' = SortByName(AllTimedOut(preparedRows))
                /\ written' = NeverWritten(SortByName(preparedRows))
                /\ loadPc' = "done"
                /\ UNCHANGED <<loadRows, loadPending, loading>>
           ELSE /\ loadRows' = preparedRows
                /\ loadPending' = CellsOf(preparedRows)
                /\ loadPc' = "fetching"
                /\ UNCHANGED <<allRows, loading, written>>
  /\ lateSets' = IF mounted THEN lateSets
                 ELSE lateSets \cup {"setEnvironments"}
                        \cup (IF loadPc' = "done" THEN {"setAllRows"} ELSE {})
  /\ UNCHANGED <<pe, fv, mounted, variant, storage, writable, cachedVersions, error, refreshing, checkedRows,
                 changedCells, flagTimers, calls>>

\* fetching variant: one fetchVersion of load settles.  With the last one
\* Promise.allSettled and Promise.all resolve and load publishes the rows.
LoadFetchSettle(i, env, resp) ==
  /\ variant = "fetching"
  /\ loadPc = "fetching"
  /\ <<i, env>> \in loadPending
  \* controller.abort() has aborted every fetch that was outstanding
  /\ Aborted => resp.kind = "abort"
  /\ LET value == CellValue(fetchVersion(resp))
         rows == [loadRows EXCEPT ![i].versions = Put(@, env, value)]
         pending == loadPending \ {<<i, env>>}
     IN /\ loadPending' = pending
        /\ IF pending = {}
           THEN /\ allRows' = SortByName(rows)
                /\ written' = NeverWritten(SortByName(rows))
                /\ loading' = IF Aborted THEN loading ELSE FALSE
                /\ loadPc' = "done"
                /\ loadRows' = << >>
                /\ lateSets' = IF mounted THEN lateSets
                               ELSE lateSets \cup {"setAllRows"}
           ELSE /\ loadRows' = rows
                /\ UNCHANGED <<allRows, written, loading, loadPc, lateSets>>
  /\ UNCHANGED <<pe, fv, mounted, variant, storage, writable, cachedVersions, environments, error, refreshing,
                 checkedRows, changedCells, flagTimers, calls>>

--------------------------------------------------------------------------
(* The user's handlers.  The table is on screen only when View = "table". *)
(* No entity of the model has a system, so selectedSystem stays 'all' and  *)
(* filteredRows = allRows.                                                 *)

RowNames == {allRows[i].name : i \in DOMAIN allRows}

\* The row's checkbox is rendered unless refreshing.has(row.name).
HandleCheckboxChange(rowName) ==
  /\ variant = "cached"
  /\ View = "table"
  /\ rowName \in RowNames
  /\ rowName \notin refreshing
  /\ checkedRows' = IF rowName \in checkedRows THEN checkedRows \ {rowName}
                    ELSE checkedRows \cup {rowName}
  /\ UNCHANGED <<pe, fv, mounted, lateSets, variant, storage, writable, cachedVersions, loadPc, loadRows, loadPending,
                 allRows, environments, loading, error, refreshing, changedCells,
                 flagTimers, calls, written>>

HandleSelectAll ==
  /\ variant = "cached"
  /\ View = "table"
  /\ checkedRows' = IF Cardinality(checkedRows) = Len(allRows) THEN {}
                    ELSE RowNames
  /\ UNCHANGED <<pe, fv, mounted, lateSets, variant, storage, writable, cachedVersions, loadPc, loadRows, loadPending,
                 allRows, environments, loading, error, refreshing, changedCells,
                 flagTimers, calls, written>>

\* A call whose setTimeout(release, 5000) is never armed.
NewCallUnarmed(row) ==
  [row |-> [name |-> row.name, namespace |-> row.namespace,
            endpoints |-> row.endpoints],
   pending |-> DOMAIN row.endpoints,
   completedCount |-> 0,
   timer |-> FALSE,
   before |-> [env \in DOMAIN row.endpoints |->
                 IF env \in DOMAIN row.versions THEN row.versions[env] ELSE Null]]

\* The start of handleRefresh(row), up to the first await.  The call keeps
\* what its closures read of the row object it was given: the name and the
\* endpoints (the namespace tells which row it was).  timer: the call's
\* 5 s release timer is armed (fetching variant only).  before is history:
\* the value each awaited cell had in that row object, Null when it had none.
NewCall(row) ==
  [row |-> [name |-> row.name, namespace |-> row.namespace,
            endpoints |-> row.endpoints],
   pending |-> DOMAIN row.endpoints,
   completedCount |-> 0,
   timer |-> (variant = "fetching"),
   before |-> [env \in DOMAIN row.endpoints |->
                 IF env \in DOMAIN row.versions THEN row.versions[env] ELSE Null]]

RECURSIVE StartCalls(_)
StartCalls(rows) ==
  IF rows = << >> THEN << >>
  ELSE <<NewCall(Head(rows))>> \o StartCalls(Tail(rows))

\* "Refrescar": handleRefresh for every row whose name is checked, while
\* the behaviour has room for max calls.
HandleGlobalRefreshWithin(max) ==
  /\ variant = "cached"
  /\ View = "table"
  /\ checkedRows # {}
  /\ LET rowsToRefresh == SelectSeq(allRows, LAMBDA r : r.name \in checkedRows)
     IN /\ Len(calls) + Len(rowsToRefresh) <= max
        /\ calls' = calls \o StartCalls(rowsToRefresh)
        /\ refreshing' = refreshing \cup {rowsToRefresh[i].name : i \in DOMAIN rowsToRefresh}
  /\ UNCHANGED <<pe, fv, mounted, lateSets, variant, storage, writable, cachedVersions, loadPc, loadRows, loadPending,
                 allRows, environments, loading, error, checkedRows, changedCells,
                 flagTimers, written>>

HandleGlobalRefresh == HandleGlobalRefreshWithin(MaxCalls)

\* fetching variant: the updater that marks the row as pending,
\* prev.map(r => r.name === row.name ? {...r, versions: all '__loading__'} : r)
MarkPending(prev, rowName) ==
  [i \in DOMAIN prev |->
     IF prev[i].name = rowName
     THEN [prev[i] EXCEPT !.versions =
             [env \in DOMAIN prev[i].endpoints |-> "__loading__"]]
     ELSE prev[i]]

\* fetching variant: the row's refresh button (disabled while
\* refreshing.has(row.name)); handleRefresh(row) up to the first await.
HandleRefreshWithin(i, max) ==
  /\ variant = "fetching"
  /\ View = "table"
  /\ i \in DOMAIN allRows
  /\ allRows[i].name \notin refreshing
  /\ Len(calls) < max
  /\ allRows' = MarkPending(allRows, allRows[i].name)
  /\ refreshing' = refreshing \cup {allRows[i].name}
  /\ calls' = Append(calls, NewCall(allRows[i]))
  /\ UNCHANGED <<pe, fv, mounted, lateSets, variant, storage, writable, cachedVersions, loadPc, loadRows, loadPending,
                 environments, loading, error, checkedRows, changedCells,
                 flagTimers, written>>

HandleRefresh(i) == HandleRefreshWithin(i, MaxCalls)

\* fetching variant: setTimeout(release, 5000) of a call fires.
ReleaseTimerFire(c) ==
  /\ c \in DOMAIN calls
  /\ calls[c].timer
  /\ refreshing' = refreshing \ {calls[c].row.name}
  /\ calls' = [calls EXCEPT ![c].timer = FALSE]
  /\ UNCHANGED <<pe, fv, mounted, lateSets, variant, storage, writable, cachedVersions, loadPc, loadRows, loadPending,
                 allRows, environments, loading, error, checkedRows, changedCells,
                 flagTimers, written>>

--------------------------------------------------------------------------
(* A fetch of a handleRefresh call completes.                              *)

\* The updater given to setAllRows: prev.map(r => r.name === row.name ? ...)
ApplyResult(prev, rowName, env, value) ==
  [i \in DOMAIN prev |->
     IF prev[i].name = rowName
     THEN [prev[i] EXCEPT !.versions = Put(@, env, value)]
     ELSE prev[i]]

\* How often the updater calls markCellAsChanged: oldVersion !== value
MarkCount(prev, rowName, env, value) ==
  Cardinality({i \in DOMAIN prev :
     /\ prev[i].name = rowName
     /\ (env \notin DOMAIN prev[i].versions \/ prev[i].versions[env] # value)})

\* StillPending as a fail-fast await (one await Promise.all over the envs)
\* would have it: the first failure ends the waiting for the siblings.
StillPendingFailFast(pending, env, outcome) ==
  IF outcome.threw THEN {} ELSE pending \ {env}

\* The envs of a call still awaited after env's fetch ended in outcome:
\* each async closure of envs.forEach runs on its own.
StillPending(pending, env, outcome) == pending \ {env}

\* The row of allRows a call was started for.
RowIndex(row) ==
  CHOOSE i \in DOMAIN allRows :
    allRows[i].name = row.name /\ allRows[i].namespace = row.namespace

\* cached variant: one env's closure of handleRefresh after its await.
FetchResolve(c, env, resp) ==
  /\ variant = "cached"
  /\ c \in DOMAIN calls
  /\ env \in calls[c].pending
  /\ LET row == calls[c].row
         outcome == fetchVersion(resp)
         value == CellValue(outcome)
         \* an updater that throws returns no new rows
         updated == IF SaveThrows(writable) THEN allRows
                    ELSE ApplyResult(allRows, row.name, env, value)
         marks == MarkCount(allRows, row.name, env, value)
         cellKey == CellKey(row.name, env)
         pending == StillPending(calls[c].pending, env, outcome)
         completedCount == calls[c].completedCount + 1
     IN /\ allRows' = updated
        /\ changedCells' = IF marks > 0 THEN changedCells \cup {cellKey}
                           ELSE changedCells
        /\ flagTimers' = [flagTimers EXCEPT ![cellKey] = @ + marks]
        /\ storage' = saveCachedVersions(storage, updated, writable)
        /\ calls' = [calls EXCEPT ![c].pending = pending,
                                  ![c].completedCount = completedCount,
                                  ![c].before = [e \in pending |-> @[e]]]
        /\ refreshing' = IF completedCount = Cardinality(DOMAIN row.endpoints)
                         THEN refreshing \ {row.name}
                         ELSE refreshing
        /\ written' = [written EXCEPT ![<<RowIndex(row), env>>] =
                                         [call |-> c, value |-> value]]
  /\ UNCHANGED <<pe, fv, mounted, lateSets, variant, writable, cachedVersions, loadPc, loadRows, loadPending,
                 environments, loading, error, checkedRows>>

\* fetching variant: one env's closure of handleRefresh after its await;
\* it sets no flag, saves nothing and releases nothing.
FetchResolveFetching(c, env, resp) ==
  /\ variant = "fetching"
  /\ c \in DOMAIN calls
  /\ env \in calls[c].pending
  /\ LET row == calls[c].row
         outcome == fetchVersion(resp)
         value == CellValue(outcome)
         pending == StillPending(calls[c].pending, env, outcome)
     IN /\ allRows' = ApplyResult(allRows, row.name, env, value)
        /\ calls' = [calls EXCEPT ![c].pending = pending,
                                  ![c].before = [e \in pending |-> @[e]]]
        /\ written' = [written EXCEPT ![<<RowIndex(row), env>>] =
                                         [call |-> c, value |-> value]]
  /\ UNCHANGED <<pe, fv, mounted, lateSets, variant, storage, writable, cachedVersions, loadPc, loadRows, loadPending,
                 environments, loading, error, refreshing, checkedRows,
                 changedCells, flagTimers>>

\* A 1000 ms timer of markCellAsChanged fires.
FlagTimerFire(cellKey) ==
  /\ flagTimers[cellKey] > 0
  /\ flagTimers' = [flagTimers EXCEPT ![cellKey] = @ - 1]
  /\ changedCells' = changedCells \ {cellKey}
  /\ UNCHANGED <<pe, fv, mounted, lateSets, variant, storage, writable, cachedVersions, loadPc, loadRows, loadPending,
                 allRows, environments, loading, error, refreshing, checkedRows,
                 calls, written>>

--------------------------------------------------------------------------
Next ==
  \/ \E catalog \in Catalogs : LoadListed(catalog)
  \/ \E rejection \in Rejections : LoadFailed(rejection)
  \/ \E catalog \in Catalogs : LoadListedFetching(catalog)
  \/ \E i \in DOMAIN loadRows, env \in Envs, resp \in Responses :
       LoadFetchSettle(i, env, resp)
  \/ \E rowName \in Names : HandleCheckboxChange(rowName)
  \/ HandleSelectAll
  \/ HandleGlobalRefresh
  \/ \E c \in DOMAIN calls, env \in Envs, resp \in Responses :
       FetchResolve(c, env, resp)
  \/ \E cellKey \in CellKeys : FlagTimerFire(cellKey)
  \/ \E i \in DOMAIN allRows : HandleRefresh(i)
  \/ \E c \in DOMAIN calls : ReleaseTimerFire(c)
  \/ \E c \in DOMAIN calls, env \in Envs, resp \in Responses :
       FetchResolveFetching(c, env, resp)

Spec == Init /\ [][Next]_vars

\* The component with every answer an endpoint can give, the transport
\* failure included, and with fair scheduling: while a fetch of a
\* handleRefresh call is outstanding one of them ends (fetchVersion settles
\* within its timeout), and while a release timer is armed one fires.
Unreachable == [kind |-> "neterr", status |-> 0, body |-> ""]

AllResponses == Responses \cup {Unreachable}

NextFair ==
  \/ \E catalog \in Catalogs : LoadListed(catalog)
  \/ \E rejection \in Rejections : LoadFailed(rejection)
  \/ \E catalog \in Catalogs : LoadListedFetching(catalog)
  \/ \E i \in DOMAIN loadRows, env \in Envs, resp \in AllResponses :
       LoadFetchSettle(i, env, resp)
  \/ \E rowName \in Names : HandleCheckboxChange(rowName)
  \/ HandleSelectAll
  \/ HandleGlobalRefreshWithin(MaxFairCalls)
  \/ \E c \in DOMAIN calls, env \in Envs, resp \in AllResponses :
       FetchResolve(c, env, resp)
  \/ \E cellKey \in CellKeys : FlagTimerFire(cellKey)
  \/ \E i \in DOMAIN allRows : HandleRefreshWithin(i, MaxFairCalls)
  \/ \E c \in DOMAIN calls : ReleaseTimerFire(c)
  \/ \E c \in DOMAIN calls, env \in Envs, resp \in AllResponses :
       FetchResolveFetching(c, env, resp)

SpecFair ==
  /\ Init /\ [][NextFair]_vars
  /\ WF_vars(\E c \in DOMAIN calls, env \in Envs, resp \in AllResponses :
               FetchResolve(c, env, resp))
  /\ WF_vars(\E c \in DOMAIN calls, env \in Envs, resp \in AllResponses :
               FetchResolveFetching(c, env, resp))
  /\ WF_vars(\E c \in DOMAIN calls : ReleaseTimerFire(c))

--------------------------------------------------------------------------
(* The cached variant started on a store that holds no snapshot.           *)
InitCorrupt == InitWith({"cached"}, CorruptStorages)

NextCached ==
  \/ \E catalog \in Catalogs : LoadListed(catalog)
  \/ \E rejection \in Rejections : LoadFailed(rejection)
  \/ \E rowName \in Names : HandleCheckboxChange(rowName)
  \/ HandleSelectAll
  \/ HandleGlobalRefresh
  \/ \E c \in DOMAIN calls, env \in Envs, resp \in Responses :
       FetchResolve(c, env, resp)
  \/ \E cellKey \in CellKeys : FlagTimerFire(cellKey)

SpecCorrupt == InitCorrupt /\ [][NextCached]_vars

--------------------------------------------------------------------------
(* Teardown while load runs: React unmounts the component, and the         *)
(* fetching variant's effect cleanup calls controller.abort().             *)
Unmount ==
  /\ mounted
  /\ loadPc \in {"listing", "fetching"}
  /\ mounted' = FALSE
  /\ UNCHANGED <<pe, fv, lateSets, variant, storage, writable, cachedVersions, loadPc,
                 loadRows, loadPending, allRows, environments, loading, error,
                 refreshing, checkedRows, changedCells, flagTimers, calls, written>>

NextTeardown == Next \/ Unmount

SpecTeardown == Init /\ [][NextTeardown]_vars

--------------------------------------------------------------------------
(* What the claims speak of.                                               *)

\* The value of a cell, Null when the row has no entry for env.
Cell(rows, i, env) ==
  IF env \in DOMAIN rows[i].versions THEN rows[i].versions[env] ELSE Null

\* The fetches of handleRefresh calls that are outstanding: <<call, env>>.
Flights == {<<c, env>> : c \in DOMAIN calls, env \in Envs}
             \cap UNION {{<<c, env>> : env \in calls[c].pending} : c \in DOMAIN calls}

\* The fetch <<c, env>> completes in this step.
Completes(c, env) ==
  /\ c \in DOMAIN calls /\ env \in calls[c].pending
  /\ env \notin calls'[c].pending

\* No two rows have the same name.
DistinctNames ==
  \A i, j \in DOMAIN allRows : allRows[i].name = allRows[j].name => i = j

FailureValues == {"TIMEOUT", "HTTP 500", "HTTP 404", "N/C"}

--------------------------------------------------------------------------
(* C1  When the fetch of (component C, environment E) completes, exactly   *)
(* the cell (C, E) changes: every other cell of C's row and every cell of  *)
(* every other row keeps its value.                                        *)
C1_OnlyOwnCellChanges ==
  [][\A c \in DOMAIN calls, env \in Envs :
       Completes(c, env) =>
         \A i \in DOMAIN allRows, e \in Envs :
           (i # RowIndex(calls[c].row) \/ e # env) =>
             Cell(allRows', i, e) = Cell(allRows, i, e)]_vars

\* C1 for rows of distinct names (a lemma beside the claim): there the
\* completion of a fetch changes no cell but its own.
C1_Lemma_DistinctNamesOnlyOwnCell ==
  [][DistinctNames =>
       \A c \in DOMAIN calls, env \in Envs :
         Completes(c, env) =>
           \A i \in DOMAIN allRows, e \in Envs :
             (i # RowIndex(calls[c].row) \/ e # env) =>
               Cell(allRows', i, e) = Cell(allRows, i, e)]_vars

(* C2  A component is in the refreshing set if and only if one of its      *)
(* fetches is outstanding, also when a refresh of the component starts     *)
(* while an earlier one is in flight.  Stated for rows of distinct names,  *)
(* where a name stands for one component.                                  *)
C2_TicketIffOutstanding ==
  DistinctNames =>
    \A i \in DOMAIN allRows :
      (allRows[i].name \in refreshing) <=>
        (\E c \in DOMAIN calls :
           calls[c].row.name = allRows[i].name /\ calls[c].pending # {})

(* C3  A fetch that was initiated earlier and completes later never        *)
(* overwrites the value written by a fetch of the same cell initiated      *)
(* after it: when the completing call is older than the call that wrote    *)
(* the cell last, the cell keeps its value.                                *)
C3_LastInitiatedWins ==
  [][\A cell \in DOMAIN written :
       (cell \in DOMAIN written' /\ written'[cell].call < written[cell].call) =>
         Cell(allRows', cell[1], cell[2]) = Cell(allRows, cell[1], cell[2])]_vars

(* C4  Once every completion of the refreshes has been applied, every      *)
(* refreshed cell holds the result of its own fetch (the last one of that  *)
(* row and environment to complete).                                       *)
C4_NoLostUpdate ==
  Flights = {} =>
    \A cell \in DOMAIN written :
      written[cell].call # 0 =>
        Cell(allRows, cell[1], cell[2]) = written[cell].value

\* C4 for rows of distinct names (a lemma beside the claim): at every
\* moment a refreshed cell holds the result of the last completed fetch of
\* it, or the Pending sentinel of a refresh started since.
C4_Lemma_DistinctNamesNoLostUpdate ==
  DistinctNames =>
    \A cell \in DOMAIN written :
      written[cell].call # 0 =>
        Cell(allRows, cell[1], cell[2]) \in {written[cell].value, "__loading__"}

(* C5  The failure of one fetch aborts no other fetch and changes no other *)
(* fetch's outcome: when a fetch completes, whatever it ended in, every    *)
(* other outstanding fetch (a sibling of the same call, a fetch of another *)
(* call, a fetch of load) stays outstanding, and the completing fetch's    *)
(* own cell holds the terminal value of its own outcome.                   *)
C5_FailuresAreIsolated ==
  [][/\ \A c \in DOMAIN calls, env \in Envs :
          Completes(c, env) =>
            /\ \A f \in Flights : f # <<c, env>> => f[2] \in calls'[f[1]].pending
            /\ LET own == <<RowIndex(calls[c].row), env>>
               IN /\ written'[own].call = c
                  /\ Cell(allRows', own[1], own[2]) = written'[own].value
                  /\ written'[own].value # Null
     /\ \A p \in loadPending :
          p \notin loadPending' =>
            /\ loadPending' = loadPending \ {p}
            /\ LET rows == IF loadPending' = {} THEN allRows' ELSE loadRows'
               IN \A i \in DOMAIN rows : \A env \in DOMAIN rows[i].endpoints :
                    <<i, env>> \notin loadPending' => env \in DOMAIN rows[i].versions]_vars

\* C5's case: in one call a fetch ended in a failure and its sibling, which
\* completed as well, in a version.
C5_Witness ==
  \E i \in DOMAIN allRows :
    /\ <<i, "INT">> \in DOMAIN written /\ <<i, "PRO">> \in DOMAIN written
    /\ written[<<i, "INT">>].call # 0
    /\ written[<<i, "INT">>].call = written[<<i, "PRO">>].call
    /\ Cell(allRows, i, "INT") \in FailureValues
    /\ Cell(allRows, i, "PRO") = "2.3.1"

(* C6  After a full load a fetch is initiated for every environment of     *)
(* every row without any user action: once the listing has succeeded,      *)
(* every cell of a row holds a value or has a fetch outstanding.           *)
C6_FullLoadFetchesEveryCell ==
  /\ loadPc = "fetching" =>
       \A i \in DOMAIN loadRows : \A env \in DOMAIN loadRows[i].endpoints :
         env \in DOMAIN loadRows[i].versions \/ <<i, env>> \in loadPending
  /\ loadPc = "done" =>
       \A i \in DOMAIN allRows : \A env \in DOMAIN allRows[i].endpoints :
         \/ env \in DOMAIN allRows[i].versions
         \/ \E f \in Flights : RowIndex(calls[f[1]].row) = i /\ f[2] = env

(* C7  On a full load the rows are published, and the loading indicator    *)
(* cleared, as soon as listing and extraction are done: no fetch of the    *)
(* load is awaited first.                                                  *)
C7_RowsPublishedBeforeFetches ==
  loadPc \in {"fetching", "done"} => ~loading

(* C8  While a fetch of a selective refresh is outstanding its cell is     *)
(* Pending.                                                                *)
C8_PendingWhileFetching ==
  \A f \in Flights :
    Cell(allRows, RowIndex(calls[f[1]].row), f[2]) = "__loading__"

(* C9  When the fetch of a selective refresh completes, the cell is        *)
(* flagged "changed" (markCellAsChanged runs) if and only if the value it  *)
(* ended in differs from the value the cell had when that refresh was      *)
(* initiated, no value counting as different.  Stated for rows of          *)
(* distinct names, in the variant that has the flag.                       *)
C9_FlaggedIffDiffersFromPreRefresh ==
  [][(variant = "cached" /\ DistinctNames) =>
       \A c \in DOMAIN calls, env \in Envs :
         Completes(c, env) =>
           LET cellKey == CellKey(calls[c].row.name, env)
               resolved == Cell(allRows', RowIndex(calls[c].row), env)
           IN (flagTimers'[cellKey] > flagTimers[cellKey] /\ cellKey \in changedCells')
                <=> (resolved # calls[c].before[env])]_vars

--------------------------------------------------------------------------
\* The value load has for cell (row, env) after this step: in the rows it
\* published, or in its local rows while other fetches are outstanding.
SettledValue(row, env) ==
  LET rows == IF loadPending' = {} THEN allRows' ELSE loadRows'
      j == CHOOSE k \in DOMAIN rows :
             rows[k].name = row.name /\ rows[k].namespace = row.namespace
  IN Cell(rows, j, env)

\* After teardown this step of load sets no error, and every fetch of load
\* that ends in it ends aborted (TIMEOUT).
SilentStep ==
  /\ error' = error
  /\ "setError" \notin lateSets'
  /\ \A p \in loadPending \ loadPending' :
       SettledValue(loadRows[p[1]], p[2]) = "TIMEOUT"

(* C11  Teardown cancels a full load as a whole: after it, every fetch of  *)
(* the load that was outstanding ends aborted, and the load sets no error  *)
(* state (setError is not called, error keeps its value).                  *)
C11_CancelledLoadIsSilent ==
  [][~mounted => SilentStep]_vars

\* C11 for the fetching variant (a lemma beside the claim): its load checks
\* controller.signal.aborted before setError and setLoading.
C11_Lemma_FetchingVariantIsSilent ==
  [][(variant = "fetching" /\ ~mounted) => (SilentStep /\ loading' = loading)]_vars

--------------------------------------------------------------------------
(* One call of fetchVersion(url, signal) on its own, step by step.  The    *)
(* component is left as it is constructed.                                 *)

mainVars == <<variant, storage, writable, cachedVersions, loadPc, loadRows, loadPending,
              allRows, environments, loading, error, refreshing, checkedRows,
              changedCells, flagTimers, calls, written, mounted, lateSets>>

\* The component as constructed: the cached variant with nothing stored.
MainIdle ==
  /\ variant = "cached"
  /\ storage = NoStorage.content /\ writable = NoStorage.writable
  /\ cachedVersions = NoCache
  /\ loadPc = "listing" /\ loadRows = << >> /\ loadPending = {}
  /\ allRows = << >> /\ environments = DEFAULT_ENVIRONMENTS
  /\ loading = TRUE /\ error = Null
  /\ refreshing = {} /\ checkedRows = {} /\ changedCells = {}
  /\ flagTimers = [k \in CellKeys |-> 0]
  /\ calls = << >> /\ written = << >>
  /\ mounted = TRUE /\ lateSets = {}

\* What the endpoint does with the one GET.  "ok": the response and its
\* body arrive; "neterr": the transport fails (TypeError); "silent": no
\* response ever; "stall": the response arrives, its body never ends;
\* "bodyerr": the response arrives, reading its body fails (TypeError).
Endpoints ==
  { [kind |-> "ok", status |-> 200, body |-> " 2.3.1\n"],
    [kind |-> "ok", status |-> 200, body |-> ""],
    [kind |-> "ok", status |-> 200, body |-> "TIMEOUT"],
    [kind |-> "ok", status |-> 404, body |-> "oops"],
    [kind |-> "ok", status |-> 500, body |-> "oops"],
    [kind |-> "neterr", status |-> 0, body |-> ""],
    [kind |-> "silent", status |-> 0, body |-> ""],
    [kind |-> "stall", status |-> 200, body |-> ""],
    [kind |-> "bodyerr", status |-> 200, body |-> ""] }

\* The caller's signal: none given, given and not fired, given and fired.
Signals == {"none", "unfired", "fired"}

\* if (signal) { if (signal.aborted) ...
PreFiredNever(signal) == FALSE

PreFired(signal) == signal = "fired"

\* The timer's callback () => controller.abort(), on the number of aborts
\* of the inner controller.
OnTimerFireNoop(aborts) == aborts

OnTimerFire(aborts) == aborts + 1

\* res.ok
ResOk(status) == status >= 200 /\ status <= 299

\* The finally block without removeEventListener.
CleanupKeepsListener(f) ==
  [f EXCEPT !.timer = IF @ = "armed" THEN "cleared" ELSE @,
            !.pc = "done"]

\* The finally block: clearTimeout(timeout), removeEventListener.
Cleanup(f) ==
  [f EXCEPT !.timer = IF @ = "armed" THEN "cleared" ELSE @,
            !.listener = FALSE,
            !.pc = "done"]

InitFetch ==
  /\ MainIdle
  /\ pe = PeIdle
  /\ \E signal \in Signals, endpoint \in Endpoints :
       fv = [pc |-> "start", signal |-> signal, preFired |-> (signal = "fired"),
             endpoint |-> endpoint, timer |-> "unset", listener |-> FALSE,
             requests |-> 0, aborts |-> 0, ended |-> Null, result |-> Null]

\* The call up to its first await.
FvCall ==
  /\ fv.pc = "start"
  /\ fv' = IF fv.signal # "none" /\ PreFired(fv.signal)
           THEN [fv EXCEPT !.timer = "cleared", !.pc = "done", !.ended = "prefired",
                           !.result = [threw |-> TRUE, value |-> "TIMEOUT"]]
           ELSE [fv EXCEPT !.timer = "armed", !.listener = (fv.signal # "none"),
                           !.requests = @ + 1, !.pc = "fetching"]
  /\ UNCHANGED <<mainVars, pe>>

\* fetch resolves with a response: the status check.
FvHeaders ==
  /\ fv.pc = "fetching" /\ fv.aborts = 0
  /\ fv.endpoint.kind \in {"ok", "stall", "bodyerr"}
  /\ fv' = IF ResOk(fv.endpoint.status)
           THEN [fv EXCEPT !.pc = "reading"]
           ELSE Cleanup([fv EXCEPT !.ended = "status",
                                   !.result = fetchVersion(fv.endpoint)])
  /\ UNCHANGED <<mainVars, pe>>

\* fetch, or the reading of the body, rejects with a transport failure.
FvTransportFails ==
  /\ fv.aborts = 0
  /\ \/ fv.pc = "fetching" /\ fv.endpoint.kind = "neterr"
     \/ fv.pc = "reading" /\ fv.endpoint.kind = "bodyerr"
  /\ fv' = Cleanup([fv EXCEPT !.ended = "transport",
                              !.result = fetchVersion([fv.endpoint EXCEPT !.kind = "neterr"])])
  /\ UNCHANGED <<mainVars, pe>>

\* res.text() resolves.
FvBody ==
  /\ fv.pc = "reading" /\ fv.aborts = 0
  /\ fv.endpoint.kind = "ok"
  /\ fv' = Cleanup([fv EXCEPT !.ended = "body",
                              !.result = fetchVersion(fv.endpoint)])
  /\ UNCHANGED <<mainVars, pe>>

\* The timeoutMs timer fires.
FvTimerFire ==
  /\ fv.pc # "idle"
  /\ fv.timer = "armed"
  /\ fv' = [fv EXCEPT !.timer = "fired", !.aborts = OnTimerFire(@)]
  /\ UNCHANGED <<mainVars, pe>>

\* The caller's signal fires; onAbort runs if it is attached.
FvSignalFire ==
  /\ fv.pc \notin {"idle", "start"}
  /\ fv.signal = "unfired"
  /\ fv' = [fv EXCEPT !.signal = "fired",
                      !.aborts = IF fv.listener THEN @ + 1 ELSE @]
  /\ UNCHANGED <<mainVars, pe>>

\* The aborted request rejects with an AbortError: catch and finally.
FvAbortSettle ==
  /\ fv.pc \in {"fetching", "reading"}
  /\ fv.aborts > 0
  /\ fv' = Cleanup([fv EXCEPT !.ended = "aborted",
                              !.result = fetchVersion([fv.endpoint EXCEPT !.kind = "abort"])])
  /\ UNCHANGED <<mainVars, pe>>

NextFetch ==
  \/ FvCall
  \/ FvHeaders
  \/ FvTransportFails
  \/ FvBody
  \/ FvTimerFire
  \/ FvSignalFire
  \/ FvAbortSettle

SpecFetch == InitFetch /\ [][NextFetch]_vars

\* Timers fire and settled promises run their continuations.
SpecFetchFair ==
  /\ InitFetch /\ [][NextFetch]_vars
  /\ WF_vars(FvCall) /\ WF_vars(FvTimerFire) /\ WF_vars(FvAbortSettle)

--------------------------------------------------------------------------
(* C12  fetchVersion called with a signal that has already fired throws    *)
(* TIMEOUT in the call itself: it is never found waiting, no request was   *)
(* issued, the timer is cleared and never fires, no listener is attached.  *)
C12_PreFiredFailsAtOnce ==
  (fv.pc # "idle" /\ fv.preFired) =>
    /\ fv.pc \in {"start", "done"}
    /\ fv.requests = 0
    /\ fv.timer \in {"unset", "cleared"}
    /\ ~fv.listener
    /\ fv.aborts = 0
    /\ fv.pc = "done" => fv.result = [threw |-> TRUE, value |-> "TIMEOUT"]

\* C12's case: a call with a fired signal has returned.
C12_Witness ==
  fv.pc = "done" /\ fv.preFired /\ fv.ended = "prefired"

(* C13  Every call of fetchVersion terminates, and a call to an endpoint   *)
(* that never responds, or whose body never ends, ends with TIMEOUT.       *)
C13_FetchTerminates ==
  /\ (fv.pc = "start") ~> (fv.pc = "done")
  /\ [](fv.pc = "done" /\ fv.endpoint.kind \in {"silent", "stall"} =>
          fv.result = [threw |-> TRUE, value |-> "TIMEOUT"])

\* C13's case: the endpoint never responded, the timer fired, the call ended.
C13_Witness ==
  /\ fv.pc = "done" /\ fv.endpoint.kind = "silent"
  /\ fv.signal = "none" /\ fv.timer = "fired"

\* C13's other case: the body never ended.
C13_Witness_Stall ==
  fv.pc = "done" /\ fv.endpoint.kind = "stall" /\ fv.timer = "fired"

(* C14  The outcome of a fetch is classified by one rule, by what ended    *)
(* it: a 2xx response with its body gives the trimmed body as the value; a *)
(* non-2xx response throws and gives the cell "HTTP <status>"; the timer   *)
(* or the caller's signal gives TIMEOUT; a transport failure gives N/C.    *)
C14_OutcomeClassified ==
  fv.pc = "done" =>
    LET cell == CellValue(fv.result)
    IN CASE fv.ended = "body" ->
              /\ ~fv.result.threw
              /\ cell = (IF fv.endpoint.body = " 2.3.1\n" THEN "2.3.1"
                         ELSE fv.endpoint.body)
         [] fv.ended = "status" ->
              /\ fv.result.threw
              /\ cell = "HTTP " \o ToString(fv.endpoint.status)
         [] fv.ended \in {"aborted", "prefired"} ->
              fv.result.threw /\ cell = "TIMEOUT"
         [] fv.ended = "transport" ->
              fv.result.threw /\ cell = "N/C"

\* C14's case: a call ended by a transport failure, its cell N/C.
C14_Witness ==
  fv.pc = "done" /\ fv.ended = "transport" /\ CellValue(fv.result) = "N/C"

\* C14's other cases: a non-2xx status, a body, an abort.
C14_Witness_Status ==
  fv.pc = "done" /\ fv.ended = "status" /\ CellValue(fv.result) = "HTTP 404"

C14_Witness_Body ==
  fv.pc = "done" /\ fv.ended = "body" /\ CellValue(fv.result) = "2.3.1"

C14_Witness_Aborted ==
  fv.pc = "done" /\ fv.ended = "aborted" /\ fv.signal = "fired" /\ fv.timer = "cleared"

--------------------------------------------------------------------------
(* parseEndpoints on its own, over every format.  Here a string is the     *)
(* sequence of its tokens: a delimiter the code looks for (":", "=", ",",  *)
(* "-", "#", a quote, a blank, a line feed, JSON punctuation) is a token   *)
(* of its own, and a run of other characters is one token.                 *)

Blanks == {" ", "\n"}

QuoteMarks == {"'", "\""}

\* String.prototype.trim
RECURSIVE TrimStartSeq(_)
TrimStartSeq(s) ==
  IF s # << >> /\ Head(s) \in Blanks THEN TrimStartSeq(Tail(s)) ELSE s

RECURSIVE TrimEndSeq(_)
TrimEndSeq(s) ==
  IF s # << >> /\ s[Len(s)] \in Blanks
  THEN TrimEndSeq(SubSeq(s, 1, Len(s) - 1)) ELSE s

TrimSeq(s) == TrimEndSeq(TrimStartSeq(s))

\* value.replace(/,+$/, '')
RECURSIVE DropTrailingCommas(_)
DropTrailingCommas(s) ==
  IF s # << >> /\ s[Len(s)] = ","
  THEN DropTrailingCommas(SubSeq(s, 1, Len(s) - 1)) ELSE s

\* cleanUrl
cleanUrl(value) == DropTrailingCommas(TrimSeq(value))

\* toUpperCase, token by token
UpperToken(t) ==
  CASE t = "int" -> "INT"
    [] t = "pro" -> "PRO"
    [] t = "endpoints" -> "ENDPOINTS"
    [] OTHER -> t

ToUpperCaseSeq(s) == [i \in DOMAIN s |-> UpperToken(s[i])]

\* key.startsWith(prefix)
StartsWithSeq(s, prefix) ==
  Len(s) >= Len(prefix) /\ SubSeq(s, 1, Len(prefix)) = prefix

\* The position of the first sep in s, 0 if there is none.
IndexOf(s, sep) ==
  IF \E i \in DOMAIN s : s[i] = sep
  THEN CHOOSE i \in DOMAIN s : s[i] = sep /\ \A j \in 1..(i - 1) : s[j] # sep
  ELSE 0

\* s.split(sep) for a one-character separator
RECURSIVE SplitOn(_, _)
SplitOn(s, sep) ==
  LET k == IndexOf(s, sep)
  IN IF k = 0 THEN <<s>>
     ELSE <<SubSeq(s, 1, k - 1)>> \o SplitOn(SubSeq(s, k + 1, Len(s)), sep)

\* s.split(/:\s*/): the separator is a colon and the blanks after it
RECURSIVE SplitOnColon(_)
SplitOnColon(s) ==
  LET k == IndexOf(s, ":")
  IN IF k = 0 THEN <<s>>
     ELSE <<SubSeq(s, 1, k - 1)>>
            \o SplitOnColon(TrimStartSeq(SubSeq(s, k + 1, Len(s))))

\* s.split(separator, limit): the first limit pieces, the rest is dropped
Limit(pieces, limit) ==
  SubSeq(pieces, 1, IF Len(pieces) < limit THEN Len(pieces) ELSE limit)

\* line.replace(/^[-\s]+/, '')
RECURSIVE DropLeadingDashes(_)
DropLeadingDashes(s) ==
  IF s # << >> /\ (Head(s) = "-" \/ Head(s) \in Blanks)
  THEN DropLeadingDashes(Tail(s)) ELSE s

\* urlRaw.replace(/^['\"]|['\"]$/g, '')
DropQuotes(s) ==
  LET s1 == IF s # << >> /\ Head(s) \in QuoteMarks THEN Tail(s) ELSE s
  IN IF s1 # << >> /\ s1[Len(s1)] \in QuoteMarks
     THEN SubSeq(s1, 1, Len(s1) - 1) ELSE s1

--------------------------------------------------------------------------
(* JavaScript values, as far as annotations hold them: a record of the     *)
(* type tag t and the content v.  An object is the sequence of its         *)
(* entries [k, v] in insertion order, an array the sequence of its items.  *)

Undefined == [t |-> "undefined", v |-> << >>]
JsNull == [t |-> "null", v |-> << >>]
Str(s) == [t |-> "string", v |-> s]
Num(n) == [t |-> "number", v |-> n]
Obj(entries) == [t |-> "object", v |-> entries]
Arr(items) == [t |-> "array", v |-> items]

\* typeof x === 'string'
IsString(x) == x.t = "string"

\* x && typeof x === 'object': null is no object here, an array is one
IsObjectLike(x) == x.t \in {"object", "array"}

\* !!x
Truthy(x) ==
  CASE x.t \in {"undefined", "null"} -> FALSE
    [] x.t = "string" -> x.v # << >>
    [] x.t = "number" -> x.v # 0
    [] OTHER -> TRUE

\* Object.entries(x) of an object or an array (the keys of an array are
\* its indices)
ObjectEntries(x) ==
  IF x.t = "array"
  THEN [i \in DOMAIN x.v |-> [k |-> <<ToString(i - 1)>>, v |-> x.v[i]]]
  ELSE x.v

\* annotations[key]
RECURSIVE Lookup(_, _)
Lookup(entries, key) ==
  IF entries = << >> THEN Undefined
  ELSE IF Head(entries).k = key THEN Head(entries).v
  ELSE Lookup(Tail(entries), key)

\* JSON.stringify, in its compact form
RECURSIVE Stringify(_)
RECURSIVE StringifyEntries(_)
RECURSIVE StringifyItems(_)
Stringify(x) ==
  CASE x.t = "string" -> <<"\"">> \o x.v \o <<"\"">>
    [] x.t = "number" -> <<ToString(x.v)>>
    [] x.t = "null" -> <<"null">>
    [] x.t = "object" -> <<"{">> \o StringifyEntries(x.v) \o <<"}">>
    [] x.t = "array" -> <<"[">> \o StringifyItems(x.v) \o <<"]">>

StringifyEntries(entries) ==
  IF entries = << >> THEN << >>
  ELSE <<"\"">> \o Head(entries).k \o <<"\"", ":">> \o Stringify(Head(entries).v)
         \o (IF Len(entries) > 1 THEN <<",">> \o StringifyEntries(Tail(entries))
             ELSE << >>)

StringifyItems(items) ==
  IF items = << >> THEN << >>
  ELSE Stringify(Head(items))
         \o (IF Len(items) > 1 THEN <<",">> \o StringifyItems(Tail(items))
             ELSE << >>)

--------------------------------------------------------------------------
(* The annotation keys, and the annotation sets parseEndpoints is given.   *)

\* 'is3-devportal/version-'
VersionPrefix == <<"is3-devportal/version", "-">>

\* 'is3-devportal/versions'
VersionsKey == <<"is3-devportal/version", "s">>

\* ENDPOINTS_ANNOTATION = 'is3-devportal/version-endpoints'
ENDPOINTS_ANNOTATION == <<"is3-devportal/version", "-", "endpoints">>

UrlA == <<"http", ":", "//a/int">>
UrlB == <<"http", ":", "//a/pro">>
UrlRel == <<"/a/int">>

\* env -> URL mappings, as the entries [k, v] in order
Mappings ==
  << <<[k |-> <<"INT">>, v |-> UrlA]>>,
     <<[k |-> <<"INT">>, v |-> UrlA], [k |-> <<"PRO">>, v |-> UrlB]>>,
     <<[k |-> <<"INT">>, v |-> UrlRel]>>,
     <<[k |-> <<"int">>, v |-> UrlRel]>> >>

\* a mapping as an object env -> URL string
MappingObject(mapping) ==
  Obj([i \in DOMAIN mapping |-> [k |-> mapping[i].k, v |-> Str(mapping[i].v)]])

\* a mapping as an array of single-entry objects
MappingArray(mapping) ==
  Arr([i \in DOMAIN mapping |-> MappingObject(<<mapping[i]>>)])

\* a mapping as lines "- ENV: URL"
RECURSIVE MappingLines(_)
MappingLines(mapping) ==
  IF mapping = << >> THEN << >>
  ELSE <<"-", " ">> \o Head(mapping).k \o <<":", " ">> \o Head(mapping).v
         \o (IF Len(mapping) > 1 THEN <<"\n">> \o MappingLines(Tail(mapping))
             ELSE << >>)

\* a mapping as "ENV=URL,ENV=URL"
RECURSIVE MappingFlat(_)
MappingFlat(mapping) ==
  IF mapping = << >> THEN << >>
  ELSE Head(mapping).k \o <<"=">> \o Head(mapping).v
         \o (IF Len(mapping) > 1 THEN <<",">> \o MappingFlat(Tail(mapping))
             ELSE << >>)

\* Other values found under 'is3-devportal/versions'
OtherVersions ==
  << JsNull,
     Num(5),
     Str(<< >>),
     Str(<<"{", "oops">>),
     Obj(<<[k |-> <<"INT">>, v |-> Num(5)]>>),
     Obj(<< >>),
     Arr(<<Str(UrlA)>>),
     Str(Stringify(MappingArray(Mappings[1]))),
     Str(Stringify(JsNull)),
     Str(Stringify(Arr(<<Str(UrlRel)>>))),
     Str(<<"#", " ", "c", "\n", " ", "INT", ":", " ", "'", "/a/int", "'", ",">>) >>

\* Other values found under ENDPOINTS_ANNOTATION
OtherEndpoints ==
  << Str(<< >>), Num(5), Num(0), MappingObject(Mappings[1]),
     Str(<<"=", ",", "INT">>) >>

\* What JSON.parse can return for the texts above
JsonValues ==
  [i \in DOMAIN Mappings |-> MappingObject(Mappings[i])]
    \o [i \in DOMAIN Mappings |-> MappingArray(Mappings[i])]
    \o <<JsNull, Arr(<<Str(UrlRel)>>)>>

\* JSON.parse(text): ok is FALSE when it throws
JSONparse(text) ==
  IF \E i \in DOMAIN JsonValues : Stringify(JsonValues[i]) = text
  THEN [ok |-> TRUE,
        value |-> JsonValues[CHOOSE i \in DOMAIN JsonValues :
                               Stringify(JsonValues[i]) = text]]
  ELSE [ok |-> FALSE, value |-> Undefined]

\* How one part of an annotation set is chosen: absent ("none"), the m-th
\* other value ("other"), or the m-th mapping in an encoding.
PerEnvChoices ==
  {[kind |-> "none", m |-> 0], [kind |-> "other", m |-> 1]}
    \cup {[kind |-> "keys", m |-> i] : i \in DOMAIN Mappings}

VersionsChoices ==
  {[kind |-> "none", m |-> 0]}
    \cup {[kind |-> "other", m |-> i] : i \in DOMAIN OtherVersions}
    \cup {[kind |-> f, m |-> i] : f \in {"object", "array", "json", "lines"},
                                  i \in DOMAIN Mappings}

EndpointsChoices ==
  {[kind |-> "none", m |-> 0]}
    \cup {[kind |-> "other", m |-> i] : i \in DOMAIN OtherEndpoints}
    \cup {[kind |-> "flat", m |-> i] : i \in DOMAIN Mappings}

\* The entries of the annotation set for the three choices.
PerEnvPart(c) ==
  CASE c.kind = "none" -> << >>
    [] c.kind = "other" -> <<[k |-> VersionPrefix \o <<"INT">>, v |-> Num(5)]>>
    [] c.kind = "keys" ->
         [i \in DOMAIN Mappings[c.m] |->
            [k |-> VersionPrefix \o Mappings[c.m][i].k,
             v |-> Str(Mappings[c.m][i].v)]]

VersionsPart(c) ==
  CASE c.kind = "none" -> << >>
    [] c.kind = "other" -> <<[k |-> VersionsKey, v |-> OtherVersions[c.m]]>>
    [] c.kind = "object" -> <<[k |-> VersionsKey, v |-> MappingObject(Mappings[c.m])]>>
    [] c.kind = "array" -> <<[k |-> VersionsKey, v |-> MappingArray(Mappings[c.m])]>>
    [] c.kind = "json" ->
         <<[k |-> VersionsKey, v |-> Str(Stringify(MappingObject(Mappings[c.m])))]>>
    [] c.kind = "lines" ->
         <<[k |-> VersionsKey, v |-> Str(MappingLines(Mappings[c.m]))]>>

EndpointsPart(c) ==
  CASE c.kind = "none" -> << >>
    [] c.kind = "other" -> <<[k |-> ENDPOINTS_ANNOTATION, v |-> OtherEndpoints[c.m]]>>
    [] c.kind = "flat" ->
         <<[k |-> ENDPOINTS_ANNOTATION, v |-> Str(MappingFlat(Mappings[c.m]))]>>

\* entity.metadata: has says whether it has annotations at all
Metadata(perEnv, versions, endpoints) ==
  [has |-> TRUE,
   annotations |-> PerEnvPart(perEnv) \o VersionsPart(versions) \o EndpointsPart(endpoints)]

NoAnnotations == [has |-> FALSE, annotations |-> << >>]

--------------------------------------------------------------------------
(* parseEndpoints, every format.  map is the function's one map object,    *)
(* handed from block to block as the code does.                            *)

Returned(map) == [raised |-> FALSE, map |-> map]

\* a TypeError leaves the function
Raised == [raised |-> TRUE, map |-> EmptyMap]

\* for (const [key, value] of Object.entries(annotations)): the keys that
\* start with 'is3-devportal/version-' and hold a string
RECURSIVE PerEnvLoop(_, _)
PerEnvLoop(entries, map) ==
  IF entries = << >> THEN map
  ELSE LET key == Head(entries).k
           value == Head(entries).v
       IN PerEnvLoop(Tail(entries),
            IF StartsWithSeq(key, VersionPrefix) /\ IsString(value)
            THEN Put(map,
                     ToUpperCaseSeq(SubSeq(key, Len(VersionPrefix) + 1, Len(key))),
                     TrimSeq(value.v))
            ELSE map)

\* for (const [env, url] of Object.entries(...)):
\*   if (typeof url === 'string') map[env] = cleanUrl(url)
RECURSIVE EntriesLoop(_, _)
EntriesLoop(entries, map) ==
  IF entries = << >> THEN map
  ELSE EntriesLoop(Tail(entries),
         IF IsString(Head(entries).v)
         THEN Put(map, Head(entries).k, cleanUrl(Head(entries).v.v))
         ELSE map)

\* for (const entry of annotation): if (entry && typeof entry === 'object')
RECURSIVE ArrayLoop(_, _)
ArrayLoop(items, map) ==
  IF items = << >> THEN map
  ELSE ArrayLoop(Tail(items),
         IF IsObjectLike(Head(items))
         THEN EntriesLoop(ObjectEntries(Head(items)), map)
         ELSE map)

\* annotation.split('\n').map(trim).filter(non-empty, no comment)
YamlLines(text) ==
  LET lines == SplitOn(text, "\n")
      trimmed == [i \in DOMAIN lines |-> TrimSeq(lines[i])]
  IN SelectSeq(trimmed, LAMBDA line : line # << >> /\ Head(line) # "#")

\* for (const line of yamlLines)
RECURSIVE LinesLoop(_, _)
LinesLoop(lines, mapFromLines) ==
  IF lines = << >> THEN mapFromLines
  ELSE LET cleaned == DropLeadingDashes(Head(lines))
           pieces == Limit(SplitOnColon(cleaned), 2)
       IN LinesLoop(Tail(lines),
            IF Len(pieces) = 2 /\ pieces[1] # << >> /\ pieces[2] # << >>
            THEN Put(mapFromLines, TrimSeq(pieces[1]), cleanUrl(DropQuotes(pieces[2])))
            ELSE mapFromLines)

\* legacyAnnotation.split(',').forEach(pair => ...)
RECURSIVE PairsLoop(_, _)
PairsLoop(pairs, map) ==
  IF pairs = << >> THEN map
  ELSE LET parts == SplitOn(Head(pairs), "=")
           env == TrimSeq(parts[1])
           url == IF Len(parts) >= 2 THEN TrimSeq(parts[2]) ELSE << >>
       IN PairsLoop(Tail(pairs),
            IF env # << >> /\ url # << >> THEN Put(map, env, url) ELSE map)

\* The block of the flat legacy format.
FlatBlock(annotations, map) ==
  LET legacyAnnotation == Lookup(annotations, ENDPOINTS_ANNOTATION)
  IN IF ~Truthy(legacyAnnotation) THEN Returned(EmptyMap)
     \* what is no string has no split: TypeError
     ELSE IF ~IsString(legacyAnnotation) THEN Raised
     ELSE Returned(PairsLoop(SplitOn(legacyAnnotation.v, ","), map))

\* The block of a string under 'is3-devportal/versions': JSON, then lines.
StringBlock(annotations, annotation, map) ==
  LET parsed == JSONparse(annotation.v)
      tried == parsed.ok /\ IsObjectLike(parsed.value)
      map1 == IF tried THEN EntriesLoop(ObjectEntries(parsed.value), map) ELSE map
      mapFromLines == LinesLoop(YamlLines(annotation.v), EmptyMap)
  IN IF tried /\ DOMAIN map1 # {} THEN Returned(map1)
     ELSE IF DOMAIN mapFromLines # {} THEN Returned(mapFromLines)
     ELSE FlatBlock(annotations, map1)

\* parseEndpoints(entity), on entity.metadata
parseEndpointsOf(metadata) ==
  LET annotations == IF metadata.has THEN metadata.annotations ELSE << >>
      map1 == PerEnvLoop(annotations, EmptyMap)
      annotation == Lookup(annotations, VersionsKey)
      map2 == IF annotation.t = "object" THEN EntriesLoop(annotation.v, map1) ELSE map1
      map3 == IF annotation.t = "array" THEN ArrayLoop(annotation.v, map2) ELSE map2
  IN IF DOMAIN map1 # {} THEN Returned(map1)
     ELSE IF annotation.t = "object" /\ DOMAIN map2 # {} THEN Returned(map2)
     ELSE IF annotation.t = "array" /\ DOMAIN map3 # {} THEN Returned(map3)
     ELSE IF IsString(annotation) THEN StringBlock(annotations, annotation, map3)
     ELSE FlatBlock(annotations, map3)

--------------------------------------------------------------------------
(* One call of parseEndpoints on its own.                                  *)

InitExtract ==
  /\ MainIdle
  /\ fv = FvIdle
  /\ \/ \E perEnv \in PerEnvChoices, versions \in VersionsChoices,
           endpoints \in EndpointsChoices :
          pe = [pc |-> "start", has |-> TRUE, perEnv |-> perEnv,
                versions |-> versions, endpoints |-> endpoints,
                result |-> Returned(EmptyMap)]
     \/ pe = [pc |-> "start", has |-> FALSE, perEnv |-> [kind |-> "none", m |-> 0],
              versions |-> [kind |-> "none", m |-> 0],
              endpoints |-> [kind |-> "none", m |-> 0],
              result |-> Returned(EmptyMap)]

\* The entity the call is given.
MetadataOf(p) ==
  IF p.has THEN Metadata(p.perEnv, p.versions, p.endpoints) ELSE NoAnnotations

Extract ==
  /\ pe.pc = "start"
  /\ pe' = [pe EXCEPT !.pc = "done", !.result = parseEndpointsOf(MetadataOf(pe))]
  /\ UNCHANGED <<mainVars, fv>>

NextExtract == Extract

SpecExtract == InitExtract /\ [][NextExtract]_vars

--------------------------------------------------------------------------
(* Properties of parseEndpoints.                                           *)

\* annotations[ENDPOINTS_ANNOTATION] of the call
LegacyValueOf(p) == Lookup(MetadataOf(p).annotations, ENDPOINTS_ANNOTATION)

(* C15  parseEndpoints never raises, whatever the annotation set: absent   *)
(* annotations, malformed JSON, values that are no string and no object    *)
(* under 'is3-devportal/versions' or 'is3-devportal/version-endpoints'.    *)
C15_NeverRaises ==
  pe.pc = "done" => ~pe.result.raised

\* C15 beside the claim: the one way out by an error is a truthy value that
\* is no string under ENDPOINTS_ANNOTATION; a string, a falsy value or no
\* value there never raises, whatever is under 'is3-devportal/versions'.
C15_Lemma_RaisesOnlyOnNonStringFlat ==
  pe.pc = "done" /\ pe.result.raised
    => Truthy(LegacyValueOf(pe)) /\ ~IsString(LegacyValueOf(pe))

\* a call that went through malformed JSON and returned the empty map
C15_Lemma_Witness ==
  /\ pe.pc = "done"
  /\ pe.versions = [kind |-> "other", m |-> 4]
  /\ pe.result = Returned(EmptyMap)

\* The annotation entries without the one under ENDPOINTS_ANNOTATION.
RECURSIVE WithoutLegacy(_)
WithoutLegacy(entries) ==
  IF entries = << >> THEN << >>
  ELSE (IF Head(entries).k = ENDPOINTS_ANNOTATION THEN << >> ELSE <<Head(entries)>>)
         \o WithoutLegacy(Tail(entries))

\* What each format yields when it is taken on its own, from an empty map:
\* the per-environment keys,
PerEnvFormat(annotations) == PerEnvLoop(WithoutLegacy(annotations), EmptyMap)

\* the structured value under 'is3-devportal/versions',
StructuredFormat(annotations) ==
  LET annotation == Lookup(annotations, VersionsKey)
      parsed == JSONparse(annotation.v)
      fromJson == IF parsed.ok /\ IsObjectLike(parsed.value)
                  THEN EntriesLoop(ObjectEntries(parsed.value), EmptyMap)
                  ELSE EmptyMap
  IN CASE annotation.t = "object" -> EntriesLoop(annotation.v, EmptyMap)
       [] annotation.t = "array" -> ArrayLoop(annotation.v, EmptyMap)
       [] IsString(annotation) ->
            IF DOMAIN fromJson # {} THEN fromJson
            ELSE LinesLoop(YamlLines(annotation.v), EmptyMap)
       [] OTHER -> EmptyMap

\* the flat string under ENDPOINTS_ANNOTATION.
FlatFormat(annotations) ==
  LET legacyAnnotation == Lookup(annotations, ENDPOINTS_ANNOTATION)
  IN IF IsString(legacyAnnotation)
     THEN PairsLoop(SplitOn(legacyAnnotation.v, ","), EmptyMap)
     ELSE EmptyMap

\* The result of the first format, in the fixed order, with an entry.
FirstFormat(annotations) ==
  IF DOMAIN PerEnvFormat(annotations) # {} THEN PerEnvFormat(annotations)
  ELSE IF DOMAIN StructuredFormat(annotations) # {} THEN StructuredFormat(annotations)
  ELSE FlatFormat(annotations)

(* C16  parseEndpoints goes through the formats in the order per-          *)
(* environment keys, structured legacy value, flat legacy string, and      *)
(* returns what the first format with an entry yields: nothing of a later  *)
(* format is mixed into it or overrides it.                                *)
C16_FirstFormatWins ==
  pe.pc = "done" /\ ~pe.result.raised
    => pe.result.map = FirstFormat(MetadataOf(pe).annotations)

\* C16 beside the claim: the cascade is as stated for every annotation set
\* that has no string under ENDPOINTS_ANNOTATION.
C16_Lemma_FirstFormatWinsWithoutFlatString ==
  pe.pc = "done" /\ ~pe.result.raised /\ ~IsString(LegacyValueOf(pe))
    => pe.result.map = FirstFormat(MetadataOf(pe).annotations)

\* per-environment keys beside a structured value: the keys win
C16_Lemma_Witness ==
  /\ pe.pc = "done"
  /\ pe.perEnv = [kind |-> "keys", m |-> 3]
  /\ pe.versions = [kind |-> "object", m |-> 2]
  /\ ~IsString(LegacyValueOf(pe))
  /\ pe.result = Returned(PerEnvFormat(MetadataOf(pe).annotations))

Absent == [kind |-> "none", m |-> 0]

\* The call is given one mapping in one encoding and nothing else: the
\* encoding and the mapping's number, or "none".
EncodingOf(p) ==
  CASE p.has /\ p.perEnv.kind = "keys" /\ p.versions = Absent /\ p.endpoints = Absent
         -> p.perEnv
    [] p.has /\ p.perEnv = Absent /\ p.endpoints = Absent
         /\ p.versions.kind \in {"object", "array", "json", "lines"}
         -> p.versions
    [] p.has /\ p.perEnv = Absent /\ p.versions = Absent /\ p.endpoints.kind = "flat"
         -> p.endpoints
    [] OTHER -> Absent

\* What parseEndpoints returns for the m-th mapping as per-environment keys.
FromKeys(m) ==
  parseEndpointsOf(Metadata([kind |-> "keys", m |-> m], Absent, Absent))

(* C17  Format-independence: one env -> URL mapping, given as per-         *)
(* environment keys, as the structured legacy value (object, array of      *)
(* single-entry objects, JSON string, lines) or as the flat legacy string, *)
(* makes parseEndpoints return the same EndpointMap.                       *)
C17_FormatIndependent ==
  pe.pc = "done" /\ EncodingOf(pe) # Absent
    => pe.result = FromKeys(EncodingOf(pe).m)

\* C17 beside the claim: the encodings agree for a mapping with upper-case
\* environment names, given as keys, object, array or JSON string, and also
\* as lines when its URLs hold no ':'.
C17_Lemma_AgreeOnUpperCaseStructured ==
  pe.pc = "done"
    /\ \/ EncodingOf(pe).kind \in {"keys", "object", "array", "json"}
          /\ EncodingOf(pe).m \in {1, 2, 3}
       \/ EncodingOf(pe).kind = "lines" /\ EncodingOf(pe).m = 3
    => pe.result = FromKeys(EncodingOf(pe).m)

\* the lines encoding of INT -> /a/int, read as the keys encoding is
C17_Lemma_Witness ==
  /\ pe.pc = "done"
  /\ EncodingOf(pe) = [kind |-> "lines", m |-> 3]
  /\ pe.result = Returned((<<"INT">> :> UrlRel))

--------------------------------------------------------------------------
(* Properties of the rows load publishes.                                  *)

\* The entities of the model for which parseEndpoints returns the empty map.
WithoutEndpoints ==
  {entity \in UNION {Range(catalog) : catalog \in Catalogs} :
     DOMAIN parseEndpoints(entity) = {}}

(* C18  Every row of every published row set has a non-empty EndpointMap:  *)
(* an entity for which parseEndpoints returns the empty map is no row.     *)
C18_NoRowWithoutEndpoints ==
  \A i \in DOMAIN allRows :
    /\ DOMAIN allRows[i].endpoints # {}
    /\ \A entity \in WithoutEndpoints : allRows[i].name # entity.name

\* the catalog with the library and svc-b has been loaded: one row
C18_Witness ==
  /\ loadPc = "done"
  /\ WithoutEndpoints # {}
  /\ Len(allRows) = 1
  /\ allRows[1].name = "svc-b"

(* C19  After every successful full load the environment set holds every  *)
(* default environment (CONSO, INT, PRE, PRO) and every environment key of *)
(* the EndpointMap of every published row.                                 *)
C19_EnvironmentsCoverRows ==
  loadPc = "done"
    => /\ Range(DEFAULT_ENVIRONMENTS) \subseteq Range(environments)
       /\ \A i \in DOMAIN allRows :
            DOMAIN allRows[i].endpoints \subseteq Range(environments)

\* a load has published a row with an endpoint for DEV, no default
C19_Witness ==
  /\ loadPc = "done"
  /\ \E i \in DOMAIN allRows :
       \E env \in DOMAIN allRows[i].endpoints :
         env \notin Range(DEFAULT_ENVIRONMENTS) /\ env \in Range(environments)

\* The versions the earlier session saved for a component name.
SavedFor(name) ==
  LET saved == {j \in DOMAIN EarlierRows :
                  EarlierRows[j].name = name /\ DOMAIN EarlierRows[j].versions # {}}
  IN IF saved = {} THEN EmptyMap
     ELSE EarlierRows[CHOOSE j \in saved : \A k \in saved : k <= j].versions

\* No fetch of this instance has completed.
NoFetchCompleted == \A cell \in DOMAIN written : written[cell].call = 0

(* C20  Cache round-trip: with the snapshot an earlier session wrote after *)
(* its cells resolved, a fresh instance's full load publishes every row    *)
(* with exactly the values saved for the row's component name, before any  *)
(* fetch completes; a component with nothing saved starts with an empty    *)
(* VersionState.                                                           *)
C20_CacheRoundTrip ==
  variant = "cached" /\ loadPc = "done" /\ NoFetchCompleted
    => \A i \in DOMAIN allRows :
         allRows[i].versions =
           IF storage.kind = "object" THEN SavedFor(allRows[i].name) ELSE EmptyMap

\* the rows are on screen with what was saved for svc-a and nothing for
\* svc-c, while a refresh is outstanding
C20_Witness ==
  /\ variant = "cached" /\ loadPc = "done" /\ NoFetchCompleted
  /\ storage.kind = "object"
  /\ calls # << >>
  /\ \E i, j \in DOMAIN allRows :
       /\ allRows[i].name = "svc-a"
       /\ allRows[i].versions = ("INT" :> "1.0.0" @@ "PRO" :> "0.9.0")
       /\ allRows[j].name = "svc-c"
       /\ allRows[j].versions = EmptyMap

--------------------------------------------------------------------------
(* Properties of the cache writes and of the refresh tickets.              *)

(* C21  A failing cache write never blocks or fails the in-memory update   *)
(* it follows: when localStorage takes no write, the completing fetch's    *)
(* cell still gets its value, the call that has no fetch left clears its   *)
(* ticket, no error state is set, and the store is left as it was.         *)
C21_FailingWriteIsIgnored ==
  [][(variant = "cached" /\ ~writable) =>
       \A c \in DOMAIN calls, env \in Envs :
         Completes(c, env) =>
           LET own == <<RowIndex(calls[c].row), env>>
           IN /\ written'[own].value # Null
              /\ Cell(allRows', own[1], own[2]) = written'[own].value
              /\ calls'[c].pending = {} => calls[c].row.name \notin refreshing'
              /\ error' = Null
              /\ View' = "table"
              /\ storage' = storage]_vars

\* a refresh of svc-b has completed in a store that takes no write: both
\* cells are set, the ticket is gone, the store holds the old snapshot
C21_Witness ==
  /\ variant = "cached" /\ ~writable
  /\ \E c \in DOMAIN calls :
       /\ calls[c].row.name = "svc-b"
       /\ calls[c].pending = {}
  /\ \E i \in DOMAIN allRows :
       /\ allRows[i].name = "svc-b"
       /\ Cell(allRows, i, "INT") = "2.3.1"
       /\ Cell(allRows, i, "PRO") = "HTTP 500"
  /\ refreshing = {}
  /\ error = Null
  /\ storage = StoredSnapshot

\* What setError gets when getEntities rejects.
ListingFailures ==
  {ErrorMessage(rejection, "Failed to load entities") : rejection \in Rejections}

(* C22  A missing or corrupt cache (unreadable store, unparseable text,    *)
(* text that parses to null, a number or a string) counts as an empty      *)
(* cache: the full load succeeds, publishes every row with an empty        *)
(* VersionState and enters no error state (the listing's own failure       *)
(* aside).                                                                 *)
C22_CorruptCacheIsEmptyCache ==
  /\ loadPc = "failed" => error \in ListingFailures
  /\ loadPc = "done" =>
       /\ error = Null
       /\ NoFetchCompleted => \A i \in DOMAIN allRows : allRows[i].versions = EmptyMap

\* C22 beside the claim: it holds for every store of the model but the one
\* whose text parses to null.
C22_Lemma_EmptyCacheUnlessNull ==
  (storage.kind # "null" /\ loadPc # "listing") => C22_CorruptCacheIsEmptyCache

\* a load on unparseable text has published its rows, all empty
C22_Lemma_Witness ==
  /\ storage.kind = "unparseable"
  /\ loadPc = "done" /\ calls = << >>
  /\ Len(allRows) = 2
  /\ \A i \in DOMAIN allRows : allRows[i].versions = EmptyMap

(* C23  Every component that enters Pending returns to Idle: with fair    *)
(* scheduling of fetch completions and timers, every ticket that is set    *)
(* in refreshing is cleared in the end, whatever its fetches end in.       *)
C23_TicketIsCleared ==
  \A name \in Names : (name \in refreshing) ~> (name \notin refreshing)

\* a refresh of svc-b whose fetches ended in a transport failure and in a
\* version has been and gone: no ticket is left
C23_Witness ==
  /\ variant = "cached"
  /\ refreshing = {}
  /\ \E c \in DOMAIN calls : calls[c].row.name = "svc-b" /\ calls[c].pending = {}
  /\ \E i \in DOMAIN allRows :
       /\ allRows[i].name = "svc-b"
       /\ Cell(allRows, i, "INT") = "N/C"
       /\ Cell(allRows, i, "PRO") = "2.3.1"

\* the same in the fetching variant, the ticket released by the timer
C23_Witness_Released ==
  /\ variant = "fetching"
  /\ refreshing = {}
  /\ \E c \in DOMAIN calls : ~calls[c].timer /\ calls[c].pending = {}

\* The calls that start in this step.
Started == {k \in DOMAIN calls' : k \notin DOMAIN calls}

(* C24  While a component has a fetch outstanding no user action starts a  *)
(* new refresh of it: neither the row's own control nor the checkbox with  *)
(* the "Refrescar" button.                                                 *)
C24_NoRefreshWhileInFlight ==
  [][\A k \in Started : \A j \in DOMAIN calls :
       (/\ calls[j].row.name = calls'[k].row.name
        /\ calls[j].row.namespace = calls'[k].row.namespace)
         => calls[j].pending = {}]_vars

\* C24 beside the claim: what the controls do check is the ticket.  The
\* fetching variant's button starts no refresh of a name in refreshing.
C24_Lemma_ButtonDisabledWhileTicket ==
  [][variant = "fetching" =>
       \A k \in Started : calls'[k].row.name \notin refreshing]_vars

(* C25  Each marking of a cell as changed keeps the flag set for its own  *)
(* 1-second window: while the timer of a marking of the cell is still to   *)
(* fire the cell is flagged, so the timer of an earlier marking never      *)
(* clears a later marking early; and with every timer fired no cell is     *)
(* flagged.  Stated for rows of distinct names, where a completion marks   *)
(* a cell once.                                                            *)
C25_FlagLastsItsWindow ==
  /\ DistinctNames =>
       \A cellKey \in CellKeys : flagTimers[cellKey] > 0 => cellKey \in changedCells
  /\ (\A cellKey \in CellKeys : flagTimers[cellKey] = 0) => changedCells = {}

\* C25 beside the claim: once every timer has fired no cell is flagged, and
\* a cell is flagged only while a timer of it is still to fire.
C25_Lemma_NoFlagWithoutTimer ==
  \A cellKey \in CellKeys : cellKey \in changedCells => flagTimers[cellKey] > 0

\* Every endpoint URL of the rows, and the Pending sentinel.
NotTerminal(rows) ==
  {"__loading__"}
    \cup UNION {{rows[i].endpoints[env] : env \in DOMAIN rows[i].endpoints} :
                  i \in DOMAIN rows}

(* C26  After every cell resolution whose cache write succeeds the stored  *)
(* snapshot is the mapping component name -> VersionState of the rows as   *)
(* they are after that resolution (a name without versions has no entry),  *)
(* so no write stores a stale snapshot over a newer one; and it holds      *)
(* terminal cell values only: no Pending, no endpoint URL.                 *)
C26_SnapshotIsLatestRows ==
  [][(variant = "cached" /\ writable
        /\ \E c \in DOMAIN calls, env \in Envs : Completes(c, env)) =>
       /\ storage'.kind = "object"
       /\ DOMAIN storage'.value \subseteq {allRows'[i].name : i \in DOMAIN allRows'}
       /\ \A i \in DOMAIN allRows' :
            GetOrEmpty(storage'.value, allRows'[i].name) = allRows'[i].versions
       /\ \A name \in DOMAIN storage'.value : \A env \in DOMAIN storage'.value[name] :
            storage'.value[name][env] \notin NotTerminal(allRows')]_vars

\* two resolutions have been written, the second over the first: the store
\* holds both cells of svc-b as the row does
C26_Witness ==
  /\ variant = "cached" /\ writable
  /\ storage.kind = "object"
  /\ "svc-b" \in DOMAIN storage.value
  /\ DOMAIN storage.value["svc-b"] = {"INT", "PRO"}
  /\ \E i \in DOMAIN allRows :
       allRows[i].name = "svc-b" /\ allRows[i].versions = storage.value["svc-b"]

--------------------------------------------------------------------------
(* The cell as the table shows it.                                         *)

\* The cell's JSX: what kind of cell the string is shown as.  Null is
\* row.versions[env] of a row without an entry for env.
Render(currentVersion) ==
  IF currentVersion = Null THEN "never fetched"
  ELSE IF currentVersion = "TIMEOUT" THEN "Timeout"
  ELSE IF StartsWithHTTP(currentVersion) THEN "HttpError"
  ELSE IF currentVersion = "N/C" THEN "Unreachable"
  ELSE IF currentVersion # "" THEN "Value"
  ELSE "never fetched"

(* C27  The cell of a successful fetch is a Value, told apart from every   *)
(* failure kind and from an absent cell: a 2xx response is stored and      *)
(* shown as a value whatever its trimmed body is, the empty string and     *)
(* text equal to a sentinel included.                                      *)
C27_SuccessIsAValue ==
  (fv.pc = "done" /\ fv.ended = "body") => Render(CellValue(fv.result)) = "Value"

\* C27 beside the claim: a body that trims to a text that is neither empty
\* nor a sentinel is shown as a value, and no failure is.
C27_Lemma_PlainBodyIsAValue ==
  fv.pc = "done" =>
    /\ (fv.ended = "body" /\ fv.endpoint.body = " 2.3.1\n")
         => Render(CellValue(fv.result)) = "Value"
    /\ fv.ended # "body" => Render(CellValue(fv.result)) # "Value"

C27_Lemma_Witness ==
  /\ fv.pc = "done" /\ fv.ended = "body"
  /\ CellValue(fv.result) = "2.3.1"
  /\ Render(CellValue(fv.result)) = "Value"

--------------------------------------------------------------------------
(* C28  In fetchVersion the timeout and the caller's signal compose:       *)
(* whichever fires while the request is in flight aborts it, the request   *)
(* is made once and ends once (as TIMEOUT when it was aborted, also when   *)
(* both fired), and on every way out, value, HTTP error, timeout,          *)
(* transport failure, pre-fired signal, the timer is not left armed and the *)
(* listener is detached, so that nothing of the call acts after it has     *)
(* returned.                                                               *)
C28_TimeoutAndSignalCompose ==
  /\ [](/\ fv.pc \in {"fetching", "reading"}
           /\ (fv.timer = "fired" \/ fv.signal = "fired")
           => fv.aborts > 0)
  /\ [](fv.pc # "idle" => fv.requests <= 1)
  /\ [](fv.pc = "done" =>
          /\ fv.timer # "armed" /\ ~fv.listener
          /\ fv.aborts > 0 => (fv.ended = "aborted" /\ fv.result.value = "TIMEOUT"))
  /\ [][fv.pc = "done" => fv'.aborts = fv.aborts /\ fv'.result = fv.result
                            /\ fv'.timer = fv.timer]_vars

\* the timer and the signal have both fired on one request; it ended once
C28_Witness ==
  /\ fv.pc = "done" /\ fv.ended = "aborted"
  /\ fv.timer = "fired" /\ fv.signal = "fired" /\ fv.aborts = 2
  /\ fv.requests = 1 /\ ~fv.listener

\* the signal fires after the call has returned with a value
C28_Witness_LateSignal ==
  /\ fv.pc = "done" /\ fv.ended = "body"
  /\ fv.signal = "fired" /\ fv.aborts = 0 /\ fv.timer = "cleared"

--------------------------------------------------------------------------
(* C29  In every state, the keys of a row's VersionState are keys of its   *)
(* EndpointMap: no row holds a version for an environment it has no        *)
(* endpoint for, rows seeded from a snapshot written when the component    *)
(* had other endpoints included.                                           *)
C29_VersionsWithinEndpoints ==
  \A i \in DOMAIN allRows :
    DOMAIN allRows[i].versions \subseteq DOMAIN allRows[i].endpoints

\* C29 beside the claim: a version without an endpoint is never written by
\* a fetch; it is always an entry the snapshot seeded.
C29_Lemma_OnlySeedsExceed ==
  \A i \in DOMAIN allRows :
    \A env \in DOMAIN allRows[i].versions \ DOMAIN allRows[i].endpoints :
      /\ env \in DOMAIN SavedFor(allRows[i].name)
      /\ allRows[i].versions[env] = SavedFor(allRows[i].name)[env]

--------------------------------------------------------------------------
\* The rows that hold a version: the components the cache has to keep.
RowsWithVersions == {i \in DOMAIN allRows : DOMAIN allRows[i].versions # {}}

(* C30  A component is its (name, namespace): two components of one name   *)
(* in two namespaces are independent rows.  The completion of a fetch of   *)
(* one changes no cell of the other, and the cache has an entry of its own *)
(* for each of them that holds a version.                                  *)
C30_IdentityIsNameAndNamespace ==
  /\ [][\A c \in DOMAIN calls, env \in Envs :
          Completes(c, env) =>
            \A i \in DOMAIN allRows :
              (/\ allRows[i].name = calls[c].row.name
               /\ allRows[i].namespace # calls[c].row.namespace)
                => allRows'[i].versions = allRows[i].versions]_vars
  /\ [](storage.kind = "object" /\ loadPc = "done" /\ variant = "cached" =>
          Cardinality(DOMAIN storage.value) >= Cardinality(RowsWithVersions))

\* C30 beside the claim: with no two rows of one name the snapshot has an
\* entry for every row that holds a version, once a write has been made.
C30_Lemma_OneEntryPerName ==
  (DistinctNames /\ variant = "cached" /\ writable /\ ~NoFetchCompleted) =>
    Cardinality(DOMAIN storage.value) = Cardinality(RowsWithVersions)

--------------------------------------------------------------------------
(* More properties of parseEndpoints: what each format returns.            *)

\* The map env -> URL a mapping stands for, a later entry over an earlier.
RECURSIVE MappingMap(_, _)
MappingMap(mapping, map) ==
  IF mapping = << >> THEN map
  ELSE MappingMap(Tail(mapping), Put(map, Head(mapping).k, Head(mapping).v))

\* The call is given a string of pairs under ENDPOINTS_ANNOTATION and no
\* other version annotation.
OnlyFlat(p) == EncodingOf(p).kind = "flat"

(* C31  For a component whose only version annotation is the flat legacy   *)
(* key with a string "E1=U1,E2=U2,...", parseEndpoints returns exactly the *)
(* map E1 -> U1, E2 -> U2, ..., one entry per pair.                        *)
C31_FlatStringIsItsPairs ==
  pe.pc = "done" /\ OnlyFlat(pe)
    => pe.result = Returned(MappingMap(Mappings[pe.endpoints.m], EmptyMap))

\* C31 beside the claim: the pairs are what the flat block yields when it is
\* reached; the call returns before it, with the flat key read as the
\* per-environment key of an environment ENDPOINTS that holds the string.
C31_Lemma_FlatKeyReadAsEnvironment ==
  pe.pc = "done" /\ OnlyFlat(pe)
    => /\ FlatFormat(MetadataOf(pe).annotations)
            = MappingMap(Mappings[pe.endpoints.m], EmptyMap)
       /\ pe.result
            = Returned((<<"ENDPOINTS">> :> MappingFlat(Mappings[pe.endpoints.m])))

\* the flat string of two pairs, returned as one entry
C31_Lemma_Witness ==
  /\ pe.pc = "done"
  /\ OnlyFlat(pe)
  /\ pe.endpoints.m = 2
  /\ DOMAIN pe.result.map = {<<"ENDPOINTS">>}

--------------------------------------------------------------------------
\* The call is given lines "- ENV: URL" under 'is3-devportal/versions' and
\* no other version annotation.
OnlyLines(p) == EncodingOf(p).kind = "lines"

\* ':' is in one of the mapping's URLs
HasColonUrl(mapping) ==
  \E i \in DOMAIN mapping : \E j \in DOMAIN mapping[i].v : mapping[i].v[j] = ":"

(* C32  For a string under 'is3-devportal/versions' that is no JSON, each  *)
(* line "[-] ENV: URL" contributes ENV -> the complete URL, for every URL, *)
(* also one that holds ':' itself (scheme separator, port).                *)
C32_LineGivesCompleteUrl ==
  pe.pc = "done" /\ OnlyLines(pe)
    => pe.result = Returned(MappingMap(Mappings[pe.versions.m], EmptyMap))

\* C32 beside the claim: a line contributes the complete URL when the URL
\* holds no ':', and the URL up to its first ':' when it holds one.
C32_Lemma_UrlCutAtColon ==
  pe.pc = "done" /\ OnlyLines(pe)
    => LET mapping == Mappings[pe.versions.m]
       IN IF HasColonUrl(mapping)
          THEN /\ DOMAIN pe.result.map = {mapping[i].k : i \in DOMAIN mapping}
               /\ \A k \in DOMAIN pe.result.map : pe.result.map[k] = <<"http">>
          ELSE pe.result = Returned(MappingMap(mapping, EmptyMap))

\* the line "- int: /a/int", returned as int -> /a/int
C32_Lemma_Witness ==
  /\ pe.pc = "done"
  /\ OnlyLines(pe)
  /\ pe.versions.m = 4
  /\ pe.result = Returned((<<"int">> :> UrlRel))

--------------------------------------------------------------------------
\* Every key of the map is upper-case.
UpperCaseKeys(map) == \A k \in DOMAIN map : k = ToUpperCaseSeq(k)

(* C33  Every key of every EndpointMap parseEndpoints returns is upper-    *)
(* case, whichever format (per-environment keys, structured legacy value,  *)
(* flat legacy string) produced it.                                        *)
C33_KeysAreUpperCase ==
  pe.pc = "done" /\ ~pe.result.raised => UpperCaseKeys(pe.result.map)

\* C33 beside the claim: the keys are upper-case when the per-environment
\* keys produced the map, and otherwise they are as the annotation spells
\* them.
C33_Lemma_OnlyPerEnvKeysUpperCased ==
  pe.pc = "done" /\ ~pe.result.raised
    => LET annotations == MetadataOf(pe).annotations
       IN IF DOMAIN PerEnvLoop(annotations, EmptyMap) # {}
          THEN UpperCaseKeys(pe.result.map)
          ELSE EncodingOf(pe).kind \in {"object", "array", "json", "lines"}
                 => DOMAIN pe.result.map
                      = {Mappings[pe.versions.m][i].k : i \in DOMAIN Mappings[pe.versions.m]}

\* the per-environment key 'is3-devportal/version-int', returned as INT
C33_Lemma_Witness ==
  /\ pe.pc = "done"
  /\ EncodingOf(pe) = [kind |-> "keys", m |-> 4]
  /\ pe.result = Returned((<<"INT">> :> UrlRel))

--------------------------------------------------------------------------
(* The plugin's VersionMatrix (variant "sequential"): load alone, no cache *)
(* and no refresh.  Its fetchVersion has no timeout: a fetch ends with the *)
(* endpoint's answer, or with an AbortError once the cleanup has run.      *)

\* What the endpoints answer to the plugin's fetches.
SequentialResponses ==
  { [kind |-> "ok", status |-> 200, body |-> " 2.3.1\n"],
    [kind |-> "ok", status |-> 200, body |-> ""],
    [kind |-> "ok", status |-> 500, body |-> "oops"],
    Unreachable,
    [kind |-> "abort", status |-> 0, body |-> ""] }

\* try { versions[env] = await fetchVersion(...) } catch { versions[env] = 'N/D' }
CellValueSequential(outcome) ==
  IF outcome.threw THEN "N/D" ELSE outcome.value

\* fetchRowVersions of every row when every fetch is rejected.
AllNotAvailable(rows) ==
  [i \in DOMAIN rows |->
     [rows[i] EXCEPT !.versions = [env \in DOMAIN rows[i].endpoints |-> "N/D"]]]

\* getEntities resolved: the rows are prepared and every row's
\* fetchRowVersions runs up to its first await, the fetch of the first key
\* of row.endpoints.  Object.keys goes by the order of the annotations,
\* which the maps of the model do not keep: first is any key of each row.
LoadListedSequential(catalog) ==
  /\ variant = "sequential"
  /\ loadPc = "listing"
  /\ LET preparedRows == PrepareRows(catalog, EmptyMap)
     IN /\ environments' = CollectEnvs(preparedRows)
        /\ IF preparedRows = << >>
           THEN /\ allRows' = << >>
                /\ written' = written
                /\ loading' = IF Aborted THEN loading ELSE FALSE
                /\ loadPc' = "done"
                /\ UNCHANGED <<loadRows, loadPending>>
           ELSE IF Aborted
           \* fetch rejects every request made with an aborted signal
           THEN /\ allRows' = SortByName(AllNotAvailable(preparedRows))
                /\ written' = NeverWritten(SortByName(preparedRows))
                /\ loadPc' = "done"
                /\ UNCHANGED <<loadRows, loadPending, loading>>
           ELSE /\ loadRows' = preparedRows
                /\ \E first \in [DOMAIN preparedRows -> Envs] :
                     /\ \A i \in DOMAIN preparedRows :
                          first[i] \in DOMAIN preparedRows[i].endpoints
                     /\ loadPending' = {<<i, first[i]>> : i \in DOMAIN preparedRows}
                /\ loadPc' = "fetching"
                /\ UNCHANGED <<allRows, loading, written>>
  /\ lateSets' = IF mounted THEN lateSets
                 ELSE lateSets \cup {"setEnvironments"}
                        \cup (IF loadPc' = "done" THEN {"setAllRows"} ELSE {})
  /\ UNCHANGED <<pe, fv, mounted, variant, storage, writable, cachedVersions, error,
                 refreshing, checkedRows, changedCells, flagTimers, calls>>

\* The awaited fetch of one row settles: the loop of fetchRowVersions
\* stores the value and goes on to the row's next key, whose fetch starts
\* only now; after the last key the row is resolved, and with the last row
\* Promise.all resolves and load publishes the rows.
LoadFetchSettleSequential(i, env, resp) ==
  /\ variant = "sequential"
  /\ loadPc = "fetching"
  /\ <<i, env>> \in loadPending
  \* a fetch ends with an AbortError exactly when the signal is aborted
  /\ Aborted <=> resp.kind = "abort"
  /\ LET value == CellValueSequential(fetchVersion(resp))
         rows == [loadRows EXCEPT ![i].versions = Put(@, env, value)]
         remaining == DOMAIN rows[i].endpoints \ DOMAIN rows[i].versions
         pending == loadPending \ {<<i, env>>}
     IN IF remaining # {}
        THEN /\ \E next \in remaining : loadPending' = pending \cup {<<i, next>>}
             /\ loadRows' = rows
             /\ UNCHANGED <<allRows, written, loading, loadPc, lateSets>>
        ELSE /\ loadPending' = pending
             /\ IF pending = {}
                THEN /\ allRows' = SortByName(rows)
                     /\ written' = NeverWritten(SortByName(rows))
                     /\ loading' = IF Aborted THEN loading ELSE FALSE
                     /\ loadPc' = "done"
                     /\ loadRows' = << >>
                     /\ lateSets' = IF mounted THEN lateSets
                                    ELSE lateSets \cup {"setAllRows"}
                ELSE /\ loadRows' = rows
                     /\ UNCHANGED <<allRows, written, loading, loadPc, lateSets>>
  /\ UNCHANGED <<pe, fv, mounted, variant, storage, writable, cachedVersions,
                 environments, error, refreshing, checkedRows, changedCells,
                 flagTimers, calls>>

InitSequential == InitWith({"sequential"}, {NoStorage})

\* The catalogs, and one with a component of two environments beside
\* another component.
SequentialCatalogs == Catalogs \cup {<<EntityB, EntityD>>}

NextSequential ==
  \/ \E catalog \in SequentialCatalogs : LoadListedSequential(catalog)
  \/ \E rejection \in Rejections : LoadFailed(rejection)
  \/ \E i \in DOMAIN loadRows, env \in Envs, resp \in SequentialResponses :
       LoadFetchSettleSequential(i, env, resp)
  \/ Unmount

SpecSequential == InitSequential /\ [][NextSequential]_vars

--------------------------------------------------------------------------
\* The fetches of row i that load has launched: settled or outstanding.
Launched(i) ==
  DOMAIN loadRows[i].versions \cup {env \in Envs : <<i, env>> \in loadPending}

\* The fetches of row i that are outstanding.
Outstanding(i) == {env \in Envs : <<i, env>> \in loadPending}

(* C34  All fetches of one refresh operation are launched before any of    *)
(* them is awaited: the fetches of a component with n > 1 environments are *)
(* outstanding at the same time, and none is started only after the        *)
(* previous one of the same component has resolved.  While load's fetches  *)
(* run every row has all its fetches launched; a handleRefresh call starts *)
(* with all its fetches outstanding and no step starts one later.          *)
C34_FetchesLaunchedTogether ==
  /\ [](loadPc = "fetching" =>
          \A i \in DOMAIN loadRows : Launched(i) = DOMAIN loadRows[i].endpoints)
  /\ [][/\ \A c \in Started : calls'[c].pending = DOMAIN calls'[c].row.endpoints
        /\ \A c \in DOMAIN calls : calls'[c].pending \subseteq calls[c].pending
        /\ (loadPc = "fetching" /\ loadPc' = "fetching")
             => loadPending' \subseteq loadPending]_vars

\* C34 beside the claim: in the plugin the fetches of one row are
\* outstanding one at a time, while the rows run side by side.
C34_Lemma_OneFetchPerRowAtATime ==
  loadPc = "fetching" =>
    /\ \A i \in DOMAIN loadRows : Cardinality(Outstanding(i)) <= 1
    /\ \A i \in DOMAIN loadRows :
         DOMAIN loadRows[i].versions # DOMAIN loadRows[i].endpoints
           => Cardinality(Outstanding(i)) = 1

\* both rows of the plugin's load with a fetch outstanding, the second
\* fetch of the first row among them
C34_Lemma_Witness ==
  /\ loadPc = "fetching"
  /\ Len(loadRows) = 2
  /\ DOMAIN loadRows[1].versions # {}
  /\ Cardinality(loadPending) = 2

\* C34 beside the claim: in the cached and the fetching variant of
\* part_001 the fetches of a load and of a refresh are launched together.
C34_Lemma_LaunchedTogetherInPart001 ==
  /\ [](loadPc = "fetching" =>
          \A i \in DOMAIN loadRows : Launched(i) = DOMAIN loadRows[i].endpoints)
  /\ [][/\ \A c \in Started : calls'[c].pending = DOMAIN calls'[c].row.endpoints
        /\ \A c \in DOMAIN calls : calls'[c].pending \subseteq calls[c].pending]_vars

\* a load of the fetching variant with the two fetches of one row outstanding
C34_Lemma_WitnessPart001 ==
  /\ variant = "fetching"
  /\ loadPc = "fetching"
  /\ \E i \in DOMAIN loadRows : Cardinality(Outstanding(i)) = 2

=============================================================================
